---- MODULE Spec2Model ----
(***************************************************************************)
(* A model of the SLATE schematic SDK (src/slate/schematic_sdk): the data  *)
(* model, the theme manager, the three layout engines and their factory,   *)
(* the SVG renderer and the diagram engine that drives them.               *)
(*                                                                         *)
(* Numbers.  Python computes coordinates in IEEE doubles.  Hierarchical    *)
(* and grid coordinates are modelled as exact rationals (records [n, d] in *)
(* lowest terms, d > 0), so that equality and order of two coordinates are *)
(* those of the exact values.                                              *)
(*                                                                         *)
(* Text.  A text (label, title) is a sequence of one-character strings, so *)
(* that html.escape can be modelled by what it does to each character.     *)
(***************************************************************************)
EXTENDS Integers, Sequences, FiniteSets, TLC

VARIABLES
    \* ---- ThemeManager instance (theme.py) and the last lookup made on it
    theme_name, theme, lookup,
    \* ---- one call of the layout factory and of calculate_positions (layout.py)
    lay_request, lay_engine, lay_components, lay_connections, lay_config, lay_result,
    \* the result of the call before the last one with the generator as the last call
    \* found it, and the state of the process-wide generator of the random module
    lay_before, rng,
    \* the components and connections the last call of calculate_positions was given,
    \* as they were when it was called
    lay_given,
    \* ---- one call of SVGRenderer.render (svg_renderer.py)
    r_components, r_connections, r_positions, r_config, r_annotations, r_svg,
    \* ---- SchematicEngine instance (engine.py): its fields (with theme_name, its
    \*      resolved theme name), the last operation called on it with what it
    \*      returned, and the number of components the last layout was given
    components, connections, annotations, config, layout_engine, positions,
    last, memo

themeVars  == <<theme_name, theme, lookup>>
layoutVars == <<lay_request, lay_engine, lay_components, lay_connections, lay_config, lay_result,
                lay_before, rng, lay_given>>
renderVars == <<r_components, r_connections, r_positions, r_config, r_annotations, r_svg>>
engineVars == <<components, connections, annotations, config, layout_engine, positions, last, memo>>
vars == <<themeVars, layoutVars, renderVars, engineVars>>

-----------------------------------------------------------------------------
(* Bounds of the model *)

MaxNodes == 2          \* longest component list
MaxConns == 1          \* longest connection list
MaxAnns == 1           \* longest annotation list

-----------------------------------------------------------------------------
(* Helpers: sequences, Python dicts, exact rationals *)

\* Python's None for an optional tuple: the empty tuple
None == <<>>

\* the empty dict
EmptyMap == [k \in {} |-> <<>>]

Range(s) == {s[i] : i \in DOMAIN s}

SeqsUpTo(S, n) == UNION {[1..k -> S] : k \in 0..n}

RECURSIVE Concat(_)
Concat(ss) == IF ss = <<>> THEN <<>> ELSE Head(ss) \o Concat(Tail(ss))

RECURSIVE SortedSeq(_)
\* sorted(set): the members of a finite set of integers, ascending
SortedSeq(S) ==
    IF S = {} THEN <<>>
    ELSE LET m == CHOOSE x \in S : \A y \in S : x <= y
         IN <<m>> \o SortedSeq(S \ {m})

\* The dict obtained by executing d[w.key] = w.val for each w of writes, in order
DictFromWrites(writes) ==
    [k \in {writes[i].key : i \in DOMAIN writes} |->
        LET last_i == CHOOSE i \in DOMAIN writes :
                         /\ writes[i].key = k
                         /\ \A j \in DOMAIN writes : writes[j].key = k => j <= i
        IN writes[last_i].val]

Abs(x) == IF x < 0 THEN -x ELSE x

RECURSIVE GCD(_, _)
GCD(a, b) == IF b = 0 THEN a ELSE GCD(b, a % b)

\* the rational n/d in lowest terms, d > 0
Frac(n, d) ==
    LET s == IF d < 0 THEN -1 ELSE 1
        g == GCD(Abs(n), Abs(d))
    IN [n |-> (s * n) \div g, d |-> (s * d) \div g]

FInt(i) == [n |-> i, d |-> 1]
FAdd(a, b) == Frac(a.n * b.d + b.n * a.d, a.d * b.d)
FSub(a, b) == Frac(a.n * b.d - b.n * a.d, a.d * b.d)
FMul(a, b) == Frac(a.n * b.n, a.d * b.d)
FDiv(a, b) == Frac(a.n * b.d, a.d * b.n)
FLess(a, b) == a.n * b.d < b.n * a.d
FLeq(a, b) == a.n * b.d <= b.n * a.d
FMinOf(S) == CHOOSE x \in S : \A y \in S : FLeq(x, y)
FMaxOf(S) == CHOOSE x \in S : \A y \in S : FLeq(y, x)

Max(a, b) == IF a >= b THEN a ELSE b

-----------------------------------------------------------------------------
(* Data model (components.py) *)

\* Component: the fields the layout engines and the renderer read
Component(id, type, label, sublabel, position, size, status, layer) ==
    [id |-> id, type |-> type, label |-> label, sublabel |-> sublabel,
     position |-> position, size |-> size, status |-> status, layer |-> layer]

\* The seven node classes: type fixed, size defaulting to the class's default_size
ServiceNode(id, label, sublabel, position, status, layer) ==
    Component(id, "service", label, sublabel, position, <<140, 60>>, status, layer)

DatabaseNode(id, label, sublabel, position, status, layer) ==
    Component(id, "database", label, sublabel, position, <<100, 80>>, status, layer)

GPUNode(id, label, sublabel, position, status, layer) ==
    Component(id, "gpu", label, sublabel, position, <<120, 80>>, status, layer)

AINode(id, label, sublabel, position, status, layer) ==
    Component(id, "ai", label, sublabel, position, <<140, 70>>, status, layer)

APINode(id, label, sublabel, position, status, layer) ==
    Component(id, "api", label, sublabel, position, <<120, 50>>, status, layer)

QueueNode(id, label, sublabel, position, status, layer) ==
    Component(id, "queue", label, sublabel, position, <<130, 50>>, status, layer)

ExternalNode(id, label, sublabel, position, status, layer) ==
    Component(id, "external", label, sublabel, position, <<120, 60>>, status, layer)

Connection(id, from_node, to_node, label, style) ==
    [id |-> id, from_node |-> from_node, to_node |-> to_node, label |-> label,
     style |-> style, color_override |-> ""]

FlowConnector(id, from_node, to_node, label) ==
    Connection(id, from_node, to_node, label, "solid")

DashedConnector(id, from_node, to_node, label) ==
    Connection(id, from_node, to_node, label, "dashed")

Annotation(id, text, position, style, anchor) ==
    [id |-> id, text |-> text, position |-> position, style |-> style, anchor |-> anchor]

\* SchematicConfig with its default field values
SchematicConfig ==
    [width |-> 900, height |-> 600, title |-> <<"S">>, theme |-> "blueprint",
     layout |-> "hierarchical", show_grid |-> TRUE, show_legend |-> TRUE,
     show_title |-> TRUE, version_badge |-> <<>>, padding |-> 40,
     layer_spacing |-> 120, node_spacing |-> 100]

-----------------------------------------------------------------------------
(* The inputs the model draws from *)

ComponentPool ==
    { ServiceNode("a", <<"A">>, <<">", "1">>, None, "active", 0),
      DatabaseNode("b", <<"B">>, <<>>, None, "pending", 1),
      GPUNode("c", <<"C">>, <<>>, <<450, 300>>, "error", 0),
      \* a second component with the id "a": nothing stops a caller adding it
      Component("a", "api", <<"A", "&">>, <<>>, None, None, "inactive", 1) }

ConnectionPool ==
    { FlowConnector("c1", "a", "b", <<"<", "H">>),
      \* names an id that no component of the pool has
      DashedConnector("c3", "a", "x", <<>>) }

AnnotationPool == { Annotation("n1", <<"N", "&">>, <<50, 50>>, "label", "start") }

ConfigPool ==
    { SchematicConfig,
      [SchematicConfig EXCEPT !.width = 300, !.height = 200, !.padding = 20,
                              !.show_grid = FALSE, !.show_title = FALSE,
                              !.version_badge = <<"v", "&">>],
      \* a canvas with no room between its paddings from top to bottom
      [SchematicConfig EXCEPT !.width = 200, !.height = 100, !.padding = 50,
                              !.title = <<"<", "T">>, !.show_legend = FALSE] }

ComponentLists == SeqsUpTo(ComponentPool, MaxNodes)
ConnectionLists == SeqsUpTo(ConnectionPool, MaxConns)
AnnotationLists == SeqsUpTo(AnnotationPool, MaxAnns)

Ids(comps) == {comps[i].id : i \in DOMAIN comps}

-----------------------------------------------------------------------------
(* Layout engines (layout.py) *)

\* A raised exception, as the value of the call that raised it
Raise(error, message) == [ok |-> FALSE, error |-> error, message |-> message]

LayoutResult(positions_, bounds) == [ok |-> TRUE, positions |-> positions_, bounds |-> bounds]

\* bounds=(0, 0, config.width, config.height)
CanvasBounds(cfg) == <<FInt(0), FInt(0), FInt(cfg.width), FInt(cfg.height)>>

\* (min(xs), min(ys), max(xs), max(ys)) over the values of a non-empty position map
MinMaxBounds(pos) ==
    LET xs == {pos[k][1] : k \in DOMAIN pos}
        ys == {pos[k][2] : k \in DOMAIN pos}
    IN <<FMinOf(xs), FMinOf(ys), FMaxOf(xs), FMaxOf(ys)>>

\* comp.size[0] / 2 if comp.size else 70
HalfWidthOr70(comp) == IF comp.size # None THEN Frac(comp.size[1], 2) ELSE FInt(70)

\* HierarchicalPosition without the half layer added: a layer starts at the padding
HierarchicalPosition_from_edge(self, cfg, num_layers, layer_idx, num_nodes, node_idx, comp) ==
    LET padding == cfg.padding
        available_width == cfg.width - (padding * 2)
        available_height == cfg.height - (padding * 2)
        layer_height == Frac(available_height, Max(num_layers, 1))
        layer_width == Frac(available_width, Max(num_layers, 1))
        node_width == Frac(available_width, Max(num_nodes, 1))
        node_height == Frac(available_height, Max(num_nodes, 1))
        li == FInt(layer_idx)
        ni == FInt(node_idx)
        two == FInt(2)
    IN IF self.direction \in {"TB", "BT"}
       THEN LET y == IF self.direction = "TB"
                     THEN FAdd(FInt(padding), FMul(li, layer_height))
                     ELSE FSub(FInt(cfg.height - padding), FMul(li, layer_height))
                x == IF self.align = "left"
                     THEN FAdd(FInt(padding + (node_idx * self.node_spacing)), HalfWidthOr70(comp))
                     ELSE IF self.align = "right"
                     THEN FSub(FInt(cfg.width - padding
                                     - ((num_nodes - 1 - node_idx) * self.node_spacing)),
                               HalfWidthOr70(comp))
                     ELSE FAdd(FAdd(FInt(padding), FMul(ni, node_width)), FDiv(node_width, two))
            IN <<x, y>>
       ELSE LET x == IF self.direction = "LR"
                     THEN FAdd(FInt(padding), FMul(li, layer_width))
                     ELSE FSub(FInt(cfg.width - padding), FMul(li, layer_width))
                y == FAdd(FAdd(FInt(padding), FMul(ni, node_height)), FDiv(node_height, two))
            IN <<x, y>>

\* The (x, y) HierarchicalLayout gives the node_idx-th of the num_nodes components of
\* the layer_idx-th of num_layers layers (indices from 0)
HierarchicalPosition(self, cfg, num_layers, layer_idx, num_nodes, node_idx, comp) ==
    LET padding == cfg.padding
        available_width == cfg.width - (padding * 2)
        available_height == cfg.height - (padding * 2)
        layer_height == Frac(available_height, Max(num_layers, 1))
        layer_width == Frac(available_width, Max(num_layers, 1))
        node_width == Frac(available_width, Max(num_nodes, 1))
        node_height == Frac(available_height, Max(num_nodes, 1))
        li == FInt(layer_idx)
        ni == FInt(node_idx)
        two == FInt(2)
    IN IF self.direction \in {"TB", "BT"}
       THEN LET y == IF self.direction = "TB"
                     THEN FAdd(FAdd(FInt(padding), FMul(li, layer_height)), FDiv(layer_height, two))
                     ELSE FSub(FSub(FInt(cfg.height - padding), FMul(li, layer_height)),
                               FDiv(layer_height, two))
                x == IF self.align = "left"
                     THEN FAdd(FInt(padding + (node_idx * self.node_spacing)), HalfWidthOr70(comp))
                     ELSE IF self.align = "right"
                     THEN FSub(FInt(cfg.width - padding
                                     - ((num_nodes - 1 - node_idx) * self.node_spacing)),
                               HalfWidthOr70(comp))
                     ELSE FAdd(FAdd(FInt(padding), FMul(ni, node_width)), FDiv(node_width, two))
            IN <<x, y>>
       ELSE LET x == IF self.direction = "LR"
                     THEN FAdd(FAdd(FInt(padding), FMul(li, layer_width)), FDiv(layer_width, two))
                     ELSE FSub(FSub(FInt(cfg.width - padding), FMul(li, layer_width)),
                               FDiv(layer_width, two))
                y == FAdd(FAdd(FInt(padding), FMul(ni, node_height)), FDiv(node_height, two))
            IN <<x, y>>

\* layers[layer]: the components of one layer, in input order
LayerComponents(comps, layer) == SelectSeq(comps, LAMBDA c : c.layer = layer)

\* HierarchicalWrites with every layer given the coordinate of the first
HierarchicalWrites_one_layer(self, comps, cfg) ==
    LET sorted_layers == SortedSeq({comps[i].layer : i \in DOMAIN comps})
        num_layers == Len(sorted_layers)
    IN Concat([l \in 1..num_layers |->
                  LET layer_components == LayerComponents(comps, sorted_layers[l])
                      num_nodes == Len(layer_components)
                  IN [n \in 1..num_nodes |->
                         [key |-> layer_components[n].id,
                          val |-> HierarchicalPosition(self, cfg, num_layers, 0, num_nodes,
                                                       n - 1, layer_components[n])]]])

\* HierarchicalWrites with every component of a layer given the first place of the layer
HierarchicalWrites_one_place(self, comps, cfg) ==
    LET sorted_layers == SortedSeq({comps[i].layer : i \in DOMAIN comps})
        num_layers == Len(sorted_layers)
    IN Concat([l \in 1..num_layers |->
                  LET layer_components == LayerComponents(comps, sorted_layers[l])
                      num_nodes == Len(layer_components)
                  IN [n \in 1..num_nodes |->
                         [key |-> layer_components[n].id,
                          val |-> HierarchicalPosition(self, cfg, num_layers, l - 1, num_nodes,
                                                       0, layer_components[n])]]])

\* HierarchicalWrites placing a layer by its layer value instead of its rank among the
\* layer values present
HierarchicalWrites_by_layer_value(self, comps, cfg) ==
    LET sorted_layers == SortedSeq({comps[i].layer : i \in DOMAIN comps})
        num_layers == Len(sorted_layers)
    IN Concat([l \in 1..num_layers |->
                  LET layer_components == LayerComponents(comps, sorted_layers[l])
                      num_nodes == Len(layer_components)
                  IN [n \in 1..num_nodes |->
                         [key |-> layer_components[n].id,
                          val |-> HierarchicalPosition(self, cfg, num_layers, sorted_layers[l],
                                                       num_nodes, n - 1, layer_components[n])]]])


\* The assignments positions[comp.id] = (x, y) of HierarchicalLayout, in the order made
HierarchicalWrites(self, comps, cfg) ==
    LET sorted_layers == SortedSeq({comps[i].layer : i \in DOMAIN comps})
        num_layers == Len(sorted_layers)
    IN Concat([l \in 1..num_layers |->
                  LET layer_components == LayerComponents(comps, sorted_layers[l])
                      num_nodes == Len(layer_components)
                  IN [n \in 1..num_nodes |->
                         [key |-> layer_components[n].id,
                          val |-> HierarchicalPosition(self, cfg, num_layers, l - 1, num_nodes,
                                                       n - 1, layer_components[n])]]])

HierarchicalLayout_calculate_positions(self, comps, conns, cfg) ==
    IF comps = <<>>
    THEN LayoutResult(EmptyMap, CanvasBounds(cfg))
    ELSE LET pos == DictFromWrites(HierarchicalWrites(self, comps, cfg))
         IN LayoutResult(pos, IF DOMAIN pos # {} THEN MinMaxBounds(pos) ELSE CanvasBounds(cfg))

\* GridPosition filling the columns first: the index counts down a column
GridPosition_by_column(self, cfg, idx) ==
    LET row == idx % self.columns
        col == idx \div self.columns
    IN <<FAdd(FInt(cfg.padding + (col * (self.cell_width + self.gap))), Frac(self.cell_width, 2)),
         FAdd(FInt(cfg.padding + (row * (self.cell_height + self.gap))), Frac(self.cell_height, 2))>>


\* The (x, y) GridLayout gives the component at index idx (from 0); columns >= 1
GridPosition(self, cfg, idx) ==
    LET col == idx % self.columns
        row == idx \div self.columns
    IN <<FAdd(FInt(cfg.padding + (col * (self.cell_width + self.gap))), Frac(self.cell_width, 2)),
         FAdd(FInt(cfg.padding + (row * (self.cell_height + self.gap))), Frac(self.cell_height, 2))>>

\* calculate_positions of the grid engine without its test for an empty list:
\* min() of no x coordinate raises ValueError
GridLayout_calculate_positions_unguarded(self, comps, conns, cfg) ==
    IF comps = <<>>
    THEN Raise("ValueError", [text |-> "min() arg is an empty sequence"])
    ELSE LET pos == DictFromWrites([i \in DOMAIN comps |->
                        [key |-> comps[i].id, val |-> GridPosition(self, cfg, i - 1)]])
         IN LayoutResult(pos, MinMaxBounds(pos))

GridLayout_calculate_positions(self, comps, conns, cfg) ==
    IF comps = <<>>
    THEN LayoutResult(EmptyMap, CanvasBounds(cfg))
    ELSE LET pos == DictFromWrites([i \in DOMAIN comps |->
                        [key |-> comps[i].id, val |-> GridPosition(self, cfg, i - 1)]])
         IN LayoutResult(pos, MinMaxBounds(pos))

-----------------------------------------------------------------------------
(* ForceDirectedLayout (layout.py).  The simulation runs in doubles with    *)
(* sqrt, cos, sin and random.uniform; the model runs it in fixed point, Q   *)
(* units to the pixel, rounding every quotient toward zero.  cos and sin of *)
(* the ring angles and the uniform draws that follow random.seed(42) are    *)
(* tabulated in thousandths, and so are the engine's fractional parameters. *)

Q == 10

Min(a, b) == IF a <= b THEN a ELSE b

\* a / b rounded toward zero, b > 0
Div0(a, b) == IF a < 0 THEN -((-a) \div b) ELSE a \div b

\* a times m thousandths
MulMilli(a, m) == Div0(a * m, 1000)

RECURSIVE ISqrtIn(_, _, _)
ISqrtIn(n, lo, hi) ==
    IF lo >= hi THEN lo
    ELSE LET mid == (lo + hi + 1) \div 2
         IN IF mid * mid <= n THEN ISqrtIn(n, mid, hi) ELSE ISqrtIn(n, lo, mid - 1)

\* floor(sqrt(n)), 0 <= n < 2^31
ISqrt(n) == ISqrtIn(n, 0, 46340)

\* math.cos and math.sin of (2 * math.pi * i) / n, in thousandths, for 0 <= i < n <= 4
RingCos(i, n) ==
    CASE n = 1 -> 1000
      [] n = 2 -> <<1000, -1000>>[i + 1]
      [] n = 3 -> <<1000, -500, -500>>[i + 1]
      [] n = 4 -> <<1000, 0, -1000, 0>>[i + 1]

RingSin(i, n) ==
    CASE n = 1 -> 0
      [] n = 2 -> <<0, 0>>[i + 1]
      [] n = 3 -> <<0, 866, -866>>[i + 1]
      [] n = 4 -> <<0, 1000, 0, -1000>>[i + 1]

\* The k-th value (from 1) of random.uniform(0.5, 1.0) after random.seed(42), in thousandths
SeededUniform(k) ==
    <<820, 513, 638, 612, 868, 838, 946, 543, 711, 515, 609, 753, 513, 599, 825, 772>>[k]

\* The same after random.seed(0): the generator as other code may have left it
OtherUniform(k) ==
    <<922, 879, 710, 629, 756, 702, 892, 652, 738, 792, 954, 752, 641, 878, 809, 625>>[k]

\* random.seed(a): the generator at the start of the sequence of seed a
random_seed(a) == [seed |-> a, drawn |-> 0]

\* The generator after one more value was drawn from it
random_drawn(g) == [g EXCEPT !.drawn = g.drawn + 1]

\* The k-th value (from 1) that random.uniform(0.5, 1.0) draws from generator g, in
\* thousandths (the tables are read round after their sixteenth value)
random_uniform(g, k) ==
    IF g.seed = 42 THEN SeededUniform(((g.drawn + k - 1) % 16) + 1)
    ELSE OtherUniform(((g.drawn + k - 1) % 16) + 1)

\* ForceStart without random.seed(42): the ring is drawn from the generator as it stands
ForceStart_unseeded(comps, cfg, i) ==
    LET comp == comps[i]
        center_x == (cfg.width * Q) \div 2
        center_y == (cfg.height * Q) \div 2
        radius == (Min(cfg.width, cfg.height) * Q) \div 3
        drawn == 2 * Cardinality({j \in 1..(i - 1) : comps[j].position = None})
    IN IF comp.position # None
       THEN <<comp.position[1] * Q, comp.position[2] * Q>>
       ELSE <<center_x + MulMilli(MulMilli(radius, RingCos(i - 1, Len(comps))),
                                  random_uniform(rng, drawn + 1)),
              center_y + MulMilli(MulMilli(radius, RingSin(i - 1, Len(comps))),
                                  random_uniform(rng, drawn + 2))>>

\* The starting point of components[i] (i from 1): its explicit position, or a point of
\* the ring around the canvas centre
ForceStart(comps, cfg, i) ==
    LET comp == comps[i]
        center_x == (cfg.width * Q) \div 2
        center_y == (cfg.height * Q) \div 2
        radius == (Min(cfg.width, cfg.height) * Q) \div 3
        \* draws made for the components before this one
        drawn == 2 * Cardinality({j \in 1..(i - 1) : comps[j].position = None})
    IN IF comp.position # None
       THEN <<comp.position[1] * Q, comp.position[2] * Q>>
       ELSE <<center_x + MulMilli(MulMilli(radius, RingCos(i - 1, Len(comps))),
                                  SeededUniform(drawn + 1)),
              center_y + MulMilli(MulMilli(radius, RingSin(i - 1, Len(comps))),
                                  SeededUniform(drawn + 2))>>

\* dist = math.sqrt(dx * dx + dy * dy) + 0.01; the 0.01 is below the resolution and is
\* kept as what it is there for: dist is never 0
ForceDist(dx, dy) == Max(ISqrt((dx * dx) + (dy * dy)) + (Q \div 100), 1)

\* The repulsion of one pair: -(fx, fy) on comp1, +(fx, fy) on comp2
Repulsion(self, pos, id1, id2) ==
    LET dx == pos[id2][1] - pos[id1][1]
        dy == pos[id2][2] - pos[id1][2]
        dist == ForceDist(dx, dy)
        force == Div0(self.repulsion_strength * Q * Q * Q, dist * dist)
        fx == Div0(force * dx, dist)
        fy == Div0(force * dy, dist)
    IN << [key |-> id1, f |-> <<-fx, -fy>>], [key |-> id2, f |-> <<fx, fy>>] >>

\* Attraction reading positions.get(id, (0, 0)): an end without position pulls from the origin
Attraction_defaulting(self, pos, from_id, to_id) ==
    LET from_pos == IF from_id \in DOMAIN pos THEN pos[from_id] ELSE <<0, 0>>
        to_pos == IF to_id \in DOMAIN pos THEN pos[to_id] ELSE <<0, 0>>
        dx == to_pos[1] - from_pos[1]
        dy == to_pos[2] - from_pos[2]
        dist == ForceDist(dx, dy)
        force == MulMilli(dist, self.attraction_strength)
        fx == Div0(force * dx, dist)
        fy == Div0(force * dy, dist)
    IN << [key |-> from_id, f |-> <<fx, fy>>], [key |-> to_id, f |-> <<-fx, -fy>>] >>


\* The attraction along one edge; none when an end has no position
Attraction(self, pos, from_id, to_id) ==
    IF from_id \in DOMAIN pos /\ to_id \in DOMAIN pos
    THEN LET dx == pos[to_id][1] - pos[from_id][1]
             dy == pos[to_id][2] - pos[from_id][2]
             dist == ForceDist(dx, dy)
             force == MulMilli(dist, self.attraction_strength)
             fx == Div0(force * dx, dist)
             fy == Div0(force * dy, dist)
         IN << [key |-> from_id, f |-> <<fx, fy>>], [key |-> to_id, f |-> <<-fx, -fy>>] >>
    ELSE <<>>

\* The pull of one component toward the canvas centre
CenterGravity(self, pos, cfg, id) ==
    << [key |-> id,
        f |-> << MulMilli(((cfg.width * Q) \div 2) - pos[id][1], self.center_gravity),
                 MulMilli(((cfg.height * Q) \div 2) - pos[id][2], self.center_gravity) >>] >>

RECURSIVE SumForces(_, _)
\* The sum of the contributions made to forces[id]
SumForces(contribs, id) ==
    IF contribs = <<>> THEN <<0, 0>>
    ELSE LET rest == SumForces(Tail(contribs), id)
             c == Head(contribs)
         IN IF c.key = id THEN <<c.f[1] + rest[1], c.f[2] + rest[2]>> ELSE rest

\* forces, as one iteration accumulates them before it moves anything
Forces(self, comps, edges, cfg, pos) ==
    LET n == Len(comps)
        pairs == Concat([i \in 1..n |-> [k \in 1..(n - i) |-> <<i, i + k>>]])
        contribs ==
            Concat([p \in DOMAIN pairs |->
                       Repulsion(self, pos, comps[pairs[p][1]].id, comps[pairs[p][2]].id)])
            \o Concat([e \in DOMAIN edges |-> Attraction(self, pos, edges[e][1], edges[e][2])])
            \o Concat([i \in 1..n |-> CenterGravity(self, pos, cfg, comps[i].id)])
    IN [id \in Ids(comps) |-> SumForces(contribs, id)]

\* Constrain without the clamp: the point stays where the velocity takes it
Constrain_free(cfg, limit, v) == v


\* max(padding, min(limit - padding, v)) with padding = config.padding + 50
Constrain(cfg, limit, v) ==
    LET padding == (cfg.padding + 50) * Q
    IN Max(padding, Min((limit * Q) - padding, v))

RECURSIVE ApplyForces(_, _, _, _, _, _)
\* "Apply forces with damping", for components[i..]: one component after the other
ApplyForces(self, comps, cfg, forces, state, i) ==
    IF i > Len(comps) THEN state
    ELSE LET id == comps[i].id
             vx == MulMilli(state.vel[id][1] + forces[id][1], self.damping)
             vy == MulMilli(state.vel[id][2] + forces[id][2], self.damping)
             x == Constrain(cfg, cfg.width, state.pos[id][1] + vx)
             y == Constrain(cfg, cfg.height, state.pos[id][2] + vy)
         IN ApplyForces(self, comps, cfg, forces,
                        [pos |-> [state.pos EXCEPT ![id] = <<x, y>>],
                         vel |-> [state.vel EXCEPT ![id] = <<vx, vy>>]], i + 1)

\* One iteration of the simulation loop
Iterate(self, comps, edges, cfg, state) ==
    ApplyForces(self, comps, cfg, Forces(self, comps, edges, cfg, state.pos), state, 1)

RECURSIVE SimulateUpTo10(_, _, _, _, _, _)
SimulateUpTo10(self, comps, edges, cfg, state, k) ==
    IF k = 0 THEN state
    ELSE LET moved == Iterate(self, comps, edges, cfg, state)
         IN IF moved = state THEN state
            ELSE SimulateUpTo10(self, comps, edges, cfg, moved, k - 1)

RECURSIVE Simulate(_, _, _, _, _, _)
\* The simulation loop, with k iterations left (run ten at a time, which keeps the
\* evaluation of a long loop shallow; an iteration that moves nothing and leaves
\* every velocity as it was is followed only by iterations that do the same)
Simulate(self, comps, edges, cfg, state, k) ==
    IF k <= 10 THEN SimulateUpTo10(self, comps, edges, cfg, state, k)
    ELSE LET moved == SimulateUpTo10(self, comps, edges, cfg, state, 10)
         IN IF moved = state THEN state
            ELSE Simulate(self, comps, edges, cfg, moved, k - 10)

\* The generator after calculate_positions: the force engine seeds it and draws two
\* values for every component without explicit position; the other engines leave it
RngAfterLayout(self, comps, g) ==
    IF self.kind = "force" /\ comps # <<>>
    THEN [seed |-> 42,
          drawn |-> 2 * Cardinality({i \in DOMAIN comps : comps[i].position = None})]
    ELSE g

\* calculate_positions of the force engine with a starting point (0, 0) entered for
\* every id an edge names: the ends of the connections become keys of the result
ForceDirectedLayout_calculate_positions_edge_keys(self, comps, conns, cfg) ==
    IF comps = <<>>
    THEN LayoutResult(EmptyMap, CanvasBounds(cfg))
    ELSE LET edges == [e \in DOMAIN conns |-> <<conns[e].from_node, conns[e].to_node>>]
             start == DictFromWrites(
                          Concat([e \in DOMAIN edges |->
                                     << [key |-> edges[e][1], val |-> <<0, 0>>],
                                        [key |-> edges[e][2], val |-> <<0, 0>>] >>])
                          \o [i \in DOMAIN comps |->
                                 [key |-> comps[i].id, val |-> ForceStart(comps, cfg, i)]])
             final == Simulate(self, comps, edges, cfg,
                               [pos |-> start, vel |-> [id \in Ids(comps) |-> <<0, 0>>]],
                               self.iterations)
             result_positions == [id \in DOMAIN final.pos |->
                                     <<Frac(final.pos[id][1], Q), Frac(final.pos[id][2], Q)>>]
         IN LayoutResult(result_positions, MinMaxBounds(result_positions))


ForceDirectedLayout_calculate_positions(self, comps, conns, cfg) ==
    IF comps = <<>>
    THEN LayoutResult(EmptyMap, CanvasBounds(cfg))
    ELSE LET start == DictFromWrites([i \in DOMAIN comps |->
                          [key |-> comps[i].id, val |-> ForceStart(comps, cfg, i)]])
             edges == [e \in DOMAIN conns |-> <<conns[e].from_node, conns[e].to_node>>]
             final == Simulate(self, comps, edges, cfg,
                               [pos |-> start, vel |-> [id \in Ids(comps) |-> <<0, 0>>]],
                               self.iterations)
             result_positions == [id \in DOMAIN final.pos |->
                                     <<Frac(final.pos[id][1], Q), Frac(final.pos[id][2], Q)>>]
         IN LayoutResult(result_positions, MinMaxBounds(result_positions))

-----------------------------------------------------------------------------
(* The layout factory (layout.py) *)

\* cls(**kwargs): the parameters' defaults, overridden by the keyword arguments given;
\* a keyword that is no parameter of __init__ is a TypeError
Construct(kind, defaults, kwargs) ==
    IF DOMAIN kwargs \subseteq DOMAIN defaults
    THEN [ok |-> TRUE,
          engine |-> [kind |-> kind] @@
                     [k \in DOMAIN defaults |-> IF k \in DOMAIN kwargs THEN kwargs[k]
                                                ELSE defaults[k]]]
    ELSE Raise("TypeError", [text |-> "unexpected keyword argument"])

HierarchicalLayout(kwargs) ==
    Construct("hierarchical",
              [direction |-> "TB", layer_spacing |-> 120, node_spacing |-> 100,
               align |-> "center"], kwargs)

\* attraction_strength, center_gravity and damping in thousandths
ForceDirectedLayout(kwargs) ==
    Construct("force",
              [iterations |-> 100, repulsion_strength |-> 500, attraction_strength |-> 100,
               center_gravity |-> 100, damping |-> 900], kwargs)

GridLayout(kwargs) ==
    Construct("grid", [columns |-> 4, cell_width |-> 200, cell_height |-> 150, gap |-> 20],
              kwargs)

\* list(engines.keys())
EngineNames == <<"hierarchical", "force", "grid">>

\* The factory falling back to the hierarchical engine for a name it does not know
get_layout_engine_fallback(layout_type, kwargs) ==
    CASE layout_type = "force" -> ForceDirectedLayout(kwargs)
      [] layout_type = "grid" -> GridLayout(kwargs)
      [] OTHER -> HierarchicalLayout(kwargs)

get_layout_engine(layout_type, kwargs) ==
    IF layout_type \notin Range(EngineNames)
    THEN Raise("ValueError", [text |-> "Unknown layout type", name |-> layout_type,
                              available |-> EngineNames])
    ELSE CASE layout_type = "hierarchical" -> HierarchicalLayout(kwargs)
           [] layout_type = "force" -> ForceDirectedLayout(kwargs)
           [] layout_type = "grid" -> GridLayout(kwargs)

\* engine.calculate_positions(components, connections, config), by the engine's class
calculate_positions(self, comps, conns, cfg) ==
    CASE self.kind = "hierarchical" -> HierarchicalLayout_calculate_positions(self, comps, conns, cfg)
      [] self.kind = "force" -> ForceDirectedLayout_calculate_positions(self, comps, conns, cfg)
      [] self.kind = "grid" -> GridLayout_calculate_positions(self, comps, conns, cfg)

\* No keyword arguments
\* The list positions[comp.id] is bound to when the starting position is taken from
\* the component itself, without the copy
StartObject_shared(comps, i) ==
    IF comps[i].position # None THEN "comp.position" ELSE "new list"

\* The list positions[comp.id] is bound to at the start of the simulation (layout.py
\* 177-183): list(comp.position), a copy, or [x, y]; either way a new list
StartObject(comps, i) == "new list"

\* The components as calculate_positions leaves them.  HierarchicalLayout and
\* GridLayout only read them (layout.py 68-73, 90-122, 287-294).  The simulation of
\* ForceDirectedLayout adds to the list positions[comp.id] in place (236-242): a
\* component's own position would follow if that list were the component's, which
\* it is for the component that bound positions[comp.id] last
calculate_positions_leaves(self, comps, result) ==
    [i \in DOMAIN comps |->
        IF /\ self.kind = "force" /\ self.iterations > 0
           /\ StartObject(comps, i) = "comp.position"
           /\ \A j \in DOMAIN comps : comps[j].id = comps[i].id => j <= i
        THEN [comps[i] EXCEPT !.position =
                 <<result.positions[comps[i].id][1].n \div result.positions[comps[i].id][1].d,
                   result.positions[comps[i].id][2].n \div result.positions[comps[i].id][2].d>>]
        ELSE comps[i]]

NoArgs == [k \in {} |-> 0]

\* The (name, keyword arguments) pairs the model asks the factory for
LayoutRequests ==
    { <<"hierarchical", NoArgs>>,
      <<"hierarchical", [direction |-> "BT"]>>,
      <<"hierarchical", [direction |-> "LR"]>>,
      <<"hierarchical", [direction |-> "RL", align |-> "left"]>>,
      <<"hierarchical", [direction |-> "RL", layer_spacing |-> 40]>>,
      <<"hierarchical", [align |-> "left", node_spacing |-> 10]>>,
      <<"hierarchical", [align |-> "right"]>>,
      <<"force", NoArgs>>,
      <<"force", [iterations |-> 0]>>,
      <<"force", [iterations |-> 1]>>,
      <<"force", [iterations |-> 2]>>,
      <<"grid", NoArgs>>,
      <<"grid", [columns |-> 1]>>,
      <<"grid", [columns |-> 2, cell_width |-> 100]>>,
      <<"grid", [direction |-> "TB"]>>,
      <<"circular", NoArgs>>,
      <<"Grid", [columns |-> 2]>>,
      <<"", NoArgs>>,
      <<"default", [iterations |-> 1]>> }

\* The value of a call not made yet
NotCalled == [ok |-> FALSE, error |-> "not called", message |-> [text |-> ""]]

-----------------------------------------------------------------------------
(* Theme manager (theme.py) *)

\* SchematicColors(): the baseline palette (grid_opacity, a float, as its text)
SchematicColors ==
    [background |-> "#0D1B2A", background_gradient_end |-> "#1B3A4B",
     grid_lines |-> "#1B3A4B", grid_opacity |-> "0.3",
     primary |-> "#B85A3C", primary_light |-> "#D4785A", primary_dark |-> "#8B4530",
     blueprint_accent |-> "#98C1D9", blueprint_node |-> "#E0FBFC",
     surface |-> "#1A1816", surface_container |-> "#2A2624", surface_elevated |-> "#3A3634",
     status_active |-> "#22C55E", status_pending |-> "#F59E0B", status_error |-> "#EF4444",
     status_inactive |-> "#6B7280",
     service_fill |-> "#2A2624", database_fill |-> "#1E3A5F", gpu_fill |-> "#3D2914",
     ai_fill |-> "#3D1E10", api_fill |-> "#1A2436", queue_fill |-> "#2A2436",
     external_fill |-> "transparent",
     text_primary |-> "#E8E2DE", text_secondary |-> "#CAC4BF", text_muted |-> "#6B7280",
     border_default |-> "#3A3634", border_hover |-> "#4A4644",
     connection_default |-> "#B85A3C", connection_active |-> "#22C55E",
     connection_muted |-> "#6B7280"]

SchematicTypography ==
    [font_display |-> "'Segoe UI', 'Inter', system-ui, sans-serif",
     font_mono |-> "'Consolas', 'JetBrains Mono', monospace",
     title_size |-> 24, subtitle_size |-> 14, label_size |-> 12, sublabel_size |-> 10,
     badge_size |-> 11, weight_bold |-> 700, weight_semibold |-> 600, weight_regular |-> 400]

SchematicEffects ==
    [shadow_dx |-> 2, shadow_dy |-> 4, shadow_blur |-> 4, shadow_color |-> "#000000",
     shadow_opacity |-> "0.3", glow_blur |-> 2, radius_sm |-> 4, radius_md |-> 8,
     radius_lg |-> 12]

\* ThemeManager.THEMES: the overrides of each pre-defined theme
THEMES ==
    [blueprint |-> [background |-> "#0D1B2A", background_gradient_end |-> "#1B3A4B",
                    grid_lines |-> "#1B3A4B", primary |-> "#B85A3C"],
     dark |-> [background |-> "#1A1816", background_gradient_end |-> "#2A2624",
               grid_lines |-> "#3A3634", primary |-> "#B85A3C"],
     light |-> [background |-> "#FBF8F6", background_gradient_end |-> "#F0EBE7",
                grid_lines |-> "#E4E0DC", primary |-> "#B85A3C",
                text_primary |-> "#1C1B1A", text_secondary |-> "#4D4845",
                surface_container |-> "#F5F2F0"]]

\* _build_theme falling back to the dark theme for a name it does not know
_build_theme_fallback(name) ==
    [ok |-> TRUE, name |-> name,
     colors |-> [key \in DOMAIN SchematicColors |->
                    IF key \in DOMAIN THEMES[IF name \in DOMAIN THEMES THEN name ELSE "dark"]
                    THEN THEMES[IF name \in DOMAIN THEMES THEN name ELSE "dark"][key]
                    ELSE SchematicColors[key]],
     typography |-> SchematicTypography,
     effects |-> SchematicEffects]

\* ThemeManager._build_theme: setattr(colors, key, value) for each override of a
\* pre-defined theme that names an attribute of the palette
_build_theme(name) ==
    [ok |-> TRUE, name |-> name,
     colors |-> [key \in DOMAIN SchematicColors |->
                    IF name \in DOMAIN THEMES /\ key \in DOMAIN THEMES[name]
                    THEN THEMES[name][key] ELSE SchematicColors[key]],
     typography |-> SchematicTypography,
     effects |-> SchematicEffects]

\* dict.get(key, default)
DictGet(d, key, default) == IF key \in DOMAIN d THEN d[key] ELSE default

\* A returned value, as the value of the call that returned it
Return(value) == [ok |-> TRUE, value |-> value]

\* get_status_color indexing its map: status_map[status]
get_status_color_indexed(colors, status) ==
    IF status \in {"active", "pending", "error", "inactive"}
    THEN Return([active |-> colors.status_active, pending |-> colors.status_pending,
                 error |-> colors.status_error, inactive |-> colors.status_inactive][status])
    ELSE Raise("KeyError", [text |-> status])

get_status_color(colors, status) ==
    Return(DictGet([active |-> colors.status_active, pending |-> colors.status_pending,
                    error |-> colors.status_error, inactive |-> colors.status_inactive],
                   status, colors.status_inactive))

get_component_fill(colors, component_type) ==
    Return(DictGet([service |-> colors.service_fill, database |-> colors.database_fill,
                    gpu |-> colors.gpu_fill, ai |-> colors.ai_fill, api |-> colors.api_fill,
                    queue |-> colors.queue_fill, external |-> colors.external_fill],
                   component_type, colors.surface_container))

get_component_border(colors, component_type, status) ==
    IF status = "active" THEN Return(colors.primary) ELSE get_status_color(colors, status)

\* The names a theme is asked for by, and the keys the lookups are asked for
ThemeNames == {"blueprint", "dark", "light", "neon", "Dark", ""}
TypeKeys == {"service", "database", "gpu", "ai", "api", "queue", "external", "terminal", ""}
StatusKeys == {"active", "pending", "error", "inactive", "unknown", "Active"}

-----------------------------------------------------------------------------
(* SVG renderer (svg_renderer.py).  The document is modelled by its parts in *)
(* order, each part by the elements it holds, each element by the values     *)
(* formatted into its markup; numbers stay numbers.                          *)

\* EscapeChar replacing the angle brackets and the quotes only
EscapeChar_brackets(ch) ==
    CASE ch = "<" -> <<"&", "l", "t", ";">>
      [] ch = ">" -> <<"&", "g", "t", ";">>
      [] ch = "\"" -> <<"&", "q", "u", "o", "t", ";">>
      [] ch = "'" -> <<"&", "#", "x", "2", "7", ";">>
      [] OTHER -> <<ch>>


\* What html.escape does to one character
EscapeChar(ch) ==
    CASE ch = "&" -> <<"&", "a", "m", "p", ";">>
      [] ch = "<" -> <<"&", "l", "t", ";">>
      [] ch = ">" -> <<"&", "g", "t", ";">>
      [] ch = "\"" -> <<"&", "q", "u", "o", "t", ";">>
      [] ch = "'" -> <<"&", "#", "x", "2", "7", ";">>
      [] OTHER -> <<ch>>

html_escape(text) == Concat([i \in DOMAIN text |-> EscapeChar(text[i])])

\* A part of the document
Part(section, attrs, items) ==
    [ok |-> TRUE, section |-> section, attrs |-> attrs, items |-> items]

_render_header(cfg) ==
    Part("header", [width |-> cfg.width, height |-> cfg.height,
                    viewBox |-> <<0, 0, cfg.width, cfg.height>>,
                    aria_label |-> html_escape(cfg.title)], <<>>)

_render_footer == Part("footer", [text |-> "</svg>"], <<>>)

_render_defs(tm, cfg) ==
    Part("defs", [background |-> tm.colors.background,
                  background_gradient_end |-> tm.colors.background_gradient_end,
                  primary |-> tm.colors.primary, grid_lines |-> tm.colors.grid_lines], <<>>)

_render_background(cfg) ==
    Part("background", [width |-> cfg.width, height |-> cfg.height], <<>>)

_render_grid(cfg) ==
    Part("grid", [width |-> cfg.width, height |-> cfg.height], <<>>)

_render_title(tm, cfg) ==
    Part("title", [x |-> cfg.padding, y |-> cfg.padding + 5, fill |-> tm.colors.text_primary,
                   text |-> html_escape(cfg.title)], <<>>)

_render_legend(tm, cfg) ==
    Part("legend", [x |-> cfg.width - 150, y |-> cfg.height - 80],
         << [text |-> "Active", fill |-> tm.colors.status_active],
            [text |-> "Pending", fill |-> tm.colors.status_pending],
            [text |-> "Error", fill |-> tm.colors.status_error] >>)

_render_version_badge(tm, cfg) ==
    Part("version_badge", [x |-> cfg.width - 110, y |-> cfg.padding, fill |-> tm.colors.primary,
                           text |-> html_escape(cfg.version_badge)], <<>>)

_render_annotations(tm, anns) ==
    Part("annotations", [class |-> "annotations-layer"],
         [i \in DOMAIN anns |->
            [x |-> anns[i].position[1], y |-> anns[i].position[2], anchor |-> anns[i].anchor,
             size |-> CASE anns[i].style = "title" -> tm.typography.title_size
                        [] anns[i].style = "subtitle" -> tm.typography.subtitle_size
                        [] OTHER -> tm.typography.label_size,
             fill |-> CASE anns[i].style = "title" -> tm.colors.text_primary
                        [] anns[i].style = "note" -> tm.colors.text_muted
                        [] OTHER -> tm.colors.text_secondary,
             text |-> html_escape(anns[i].text)]])

\* _render_component and the shape it picks by component type: the cylinder, the
\* hexagon and the rounded rectangle carry label and sublabel, the parallelogram
\* and the external box the label only
_render_component(tm, comp, x, y) ==
    LET width == IF comp.size # None THEN comp.size[1] ELSE 140
        height == IF comp.size # None THEN comp.size[2] ELSE 60
        fill == get_component_fill(tm.colors, comp.type).value
        border == get_component_border(tm.colors, comp.type, comp.status).value
        status_color == get_status_color(tm.colors, comp.status).value
        shape == CASE comp.type = "database" -> "cylinder"
                   [] comp.type = "gpu" -> "hexagon"
                   [] comp.type = "queue" -> "parallelogram"
                   [] comp.type = "external" -> "external"
                   [] OTHER -> "rounded_rect"
    IN [class |-> "component", data_id |-> comp.id, data_type |-> comp.type, shape |-> shape,
        x |-> x, y |-> y, width |-> width, height |-> height,
        fill |-> IF shape = "external" THEN "none" ELSE fill,
        stroke |-> IF shape = "external" THEN tm.colors.text_muted ELSE border,
        status_color |-> status_color,
        icon |-> shape = "rounded_rect" /\ comp.type = "ai",
        texts |-> IF shape \in {"parallelogram", "external"}
                  THEN <<html_escape(comp.label)>>
                  ELSE <<html_escape(comp.label), html_escape(comp.sublabel)>>]

\* _render_components with positions[comp.id] read for every component
_render_components_unguarded(tm, comps, pos) ==
    IF \E i \in DOMAIN comps : comps[i].id \notin DOMAIN pos
    THEN Raise("KeyError", [text |-> "id"])
    ELSE Part("components", [class |-> "components-layer"],
              [i \in DOMAIN comps |->
                  _render_component(tm, comps[i], pos[comps[i].id][1], pos[comps[i].id][2])])

_render_components(tm, comps, pos) ==
    LET placed == SelectSeq(comps, LAMBDA comp : comp.id \in DOMAIN pos)
    IN Part("components", [class |-> "components-layer"],
            [i \in DOMAIN placed |->
                _render_component(tm, placed[i], pos[placed[i].id][1], pos[placed[i].id][2])])

_render_connection(tm, conn, x1, y1, x2, y2) ==
    LET mid_x == FDiv(FAdd(x1, x2), FInt(2))
    IN [class |-> "connection", data_from |-> conn.from_node, data_to |-> conn.to_node,
        path |-> << <<x1, y1>>, <<mid_x, y1>>, <<mid_x, y2>>, <<x2, y2>> >>,
        stroke |-> IF conn.color_override # "" THEN conn.color_override
                   ELSE tm.colors.connection_default,
        dasharray |-> CASE conn.style = "dashed" -> "5,5"
                        [] conn.style = "dotted" -> "2,2"
                        [] OTHER -> "",
        texts |-> IF conn.label # <<>> THEN <<html_escape(conn.label)>> ELSE <<>>]

\* comp_lookup = {c.id: c for c in components}: the last component of each id
CompLookup(comps) ==
    DictFromWrites([i \in DOMAIN comps |-> [key |-> comps[i].id, val |-> comps[i]]])

_render_connections(tm, conns, pos, comps) ==
    LET comp_lookup == CompLookup(comps)
        HalfWidth(id) == IF id \in DOMAIN comp_lookup /\ comp_lookup[id].size # None
                         THEN Frac(comp_lookup[id].size[1], 2) ELSE FInt(0)
        placed == SelectSeq(conns, LAMBDA conn : conn.from_node \in DOMAIN pos
                                                 /\ conn.to_node \in DOMAIN pos)
    IN Part("connections", [class |-> "connections-layer"],
            [i \in DOMAIN placed |->
                _render_connection(tm, placed[i],
                                   FAdd(pos[placed[i].from_node][1], HalfWidth(placed[i].from_node)),
                                   pos[placed[i].from_node][2],
                                   FSub(pos[placed[i].to_node][1], HalfWidth(placed[i].to_node)),
                                   pos[placed[i].to_node][2])])

\* render appending the annotations layer after the legend
render_annotations_late(tm, comps, conns, pos, cfg, anns) ==
    LET connections_layer == _render_connections(tm, conns, pos, comps)
        components_layer == _render_components(tm, comps, pos)
    IN IF ~connections_layer.ok THEN connections_layer
       ELSE IF ~components_layer.ok THEN components_layer
       ELSE [ok |-> TRUE,
             parts |-> <<_render_header(cfg), _render_defs(tm, cfg), _render_background(cfg)>>
                       \o (IF cfg.show_grid THEN <<_render_grid(cfg)>> ELSE <<>>)
                       \o <<connections_layer, components_layer>>
                       \o (IF cfg.show_title THEN <<_render_title(tm, cfg)>> ELSE <<>>)
                       \o (IF cfg.show_legend THEN <<_render_legend(tm, cfg)>> ELSE <<>>)
                       \o (IF anns # <<>> THEN <<_render_annotations(tm, anns)>> ELSE <<>>)
                       \o (IF cfg.version_badge # <<>> THEN <<_render_version_badge(tm, cfg)>>
                           ELSE <<>>)
                       \o <<_render_footer>>]


\* SVGRenderer.render: the parts in order; an absent and an empty annotation
\* list are both the empty sequence
render(tm, comps, conns, pos, cfg, anns) ==
    LET connections_layer == _render_connections(tm, conns, pos, comps)
        components_layer == _render_components(tm, comps, pos)
    IN IF ~connections_layer.ok THEN connections_layer
       ELSE IF ~components_layer.ok THEN components_layer
       ELSE [ok |-> TRUE,
             parts |-> <<_render_header(cfg), _render_defs(tm, cfg), _render_background(cfg)>>
                       \o (IF cfg.show_grid THEN <<_render_grid(cfg)>> ELSE <<>>)
                       \o <<connections_layer, components_layer>>
                       \o (IF anns # <<>> THEN <<_render_annotations(tm, anns)>> ELSE <<>>)
                       \o (IF cfg.show_title THEN <<_render_title(tm, cfg)>> ELSE <<>>)
                       \o (IF cfg.show_legend THEN <<_render_legend(tm, cfg)>> ELSE <<>>)
                       \o (IF cfg.version_badge # <<>> THEN <<_render_version_badge(tm, cfg)>>
                           ELSE <<>>)
                       \o <<_render_footer>>]

\* The part of a rendered document that holds a section (there is exactly one)
Section(svg, name) ==
    LET i == CHOOSE i \in DOMAIN svg.parts : svg.parts[i].section = name
    IN svg.parts[i]

\* The coordinates a position map gives to the ids it holds, and the maps the
\* renderer is handed: one for each set of ids
PointOf ==
    [a |-> <<FInt(100), FInt(100)>>, b |-> <<Frac(505, 2), FInt(300)>>,
     c |-> <<FInt(400), FInt(100)>>, x |-> <<FInt(70), FInt(70)>>]
PositionMaps == { [id \in S |-> PointOf[id]] : S \in SUBSET {"a", "b", "c", "x"} }

-----------------------------------------------------------------------------
(* Diagram engine (engine.py, SchematicEngine).  The file is not among the   *)
(* sources; the engine is modelled from section 4.4 of the specification and *)
(* from what the tests and the callers in library.py and cli.py do with it.  *)
(* An engine is the record of its fields; an operation that returns the      *)
(* engine itself is the engine after the operation.                          *)

\* The position map of an engine that has not computed one yet
NoPositions == [computed |-> FALSE, map |-> EmptyMap]

\* SchematicEngine(config): theme and layout engine resolved from the config
SchematicEngine(cfg) ==
    [components |-> <<>>, connections |-> <<>>, annotations |-> <<>>, config |-> cfg,
     theme_name |-> cfg.theme,
     layout_engine |-> get_layout_engine(cfg.layout, NoArgs).engine,
     positions |-> NoPositions]

\* add_node prepending the component
add_node_first(self, component) == [self EXCEPT !.components = <<component>> \o @]

add_node(self, component) == [self EXCEPT !.components = Append(@, component)]

add_connector(self, connection) == [self EXCEPT !.connections = Append(@, connection)]

add_annotation(self, annotation) == [self EXCEPT !.annotations = Append(@, annotation)]

set_theme(self, name) == [self EXCEPT !.theme_name = name]

\* set_layout: the factory's error, if any, leaves the engine as it was
set_layout(self, name, kwargs) ==
    LET made == get_layout_engine(name, kwargs)
    IN IF made.ok THEN [ok |-> TRUE, self |-> [self EXCEPT !.layout_engine = made.engine]]
       ELSE made

\* apply_layout that keeps the positions it has and lays out only when it has none
apply_layout_once(self) ==
    IF self.positions.computed THEN self
    ELSE [self EXCEPT !.positions =
            [computed |-> TRUE,
             map |-> calculate_positions(self.layout_engine, self.components,
                                         self.connections, self.config).positions]]

apply_layout(self) ==
    [self EXCEPT !.positions =
        [computed |-> TRUE,
         map |-> calculate_positions(self.layout_engine, self.components,
                                     self.connections, self.config).positions]]

\* render_svg that lays out before every rendering
render_svg_fresh(self) ==
    CHOOSE result \in
        { [self |-> laid,
           svg |-> render(_build_theme(laid.theme_name), laid.components, laid.connections,
                          laid.positions.map, laid.config, laid.annotations)] :
          laid \in {apply_layout(self)} } : TRUE

\* render_svg that renders with the positions it has, computed or not
render_svg_as_is(self) ==
    [self |-> self,
     svg |-> render(_build_theme(self.theme_name), self.components, self.connections,
                    self.positions.map, self.config, self.annotations)]

\* render_svg: the engine after the call and the document returned
\* (laid, the engine once it has positions, is bound to its value)
render_svg(self) ==
    CHOOSE result \in
        { [self |-> laid,
           svg |-> render(_build_theme(laid.theme_name), laid.components, laid.connections,
                          laid.positions.map, laid.config, laid.annotations)] :
          laid \in {IF self.positions.computed THEN self ELSE apply_layout(self)} } : TRUE

\* to_dict that leaves the components out
to_dict_without_components(self) ==
    [config |-> self.config, components |-> <<>>, connections |-> <<>>,
     annotations |-> <<>>]

\* to_dict: config, components, connections and annotations, each item as the
\* mapping of its fields
to_dict(self) ==
    [config |-> self.config,
     components |-> [i \in DOMAIN self.components |->
                        [k \in DOMAIN self.components[i] |-> self.components[i][k]]],
     connections |-> [i \in DOMAIN self.connections |->
                        [k \in DOMAIN self.connections[i] |-> self.connections[i][k]]],
     annotations |-> [i \in DOMAIN self.annotations |->
                        [k \in DOMAIN self.annotations[i] |-> self.annotations[i][k]]]]

\* The references of a document's connections to ids its components do not declare
BadReferences(d) ==
    LET declared == {d.components[i].id : i \in DOMAIN d.components}
    IN Concat([i \in DOMAIN d.connections |->
                  (IF d.connections[i].from_node \in declared THEN <<>>
                   ELSE <<[index |-> i, end |-> "from", id |-> d.connections[i].from_node]>>)
                  \o (IF d.connections[i].to_node \in declared THEN <<>>
                      ELSE <<[index |-> i, end |-> "to", id |-> d.connections[i].to_node]>>)])

\* from_dict: a new engine from a document, or the list of its bad references
from_dict(d) ==
    IF BadReferences(d) # <<>>
    THEN Raise("ValueError", [text |-> "invalid definition", errors |-> BadReferences(d)])
    ELSE [ok |-> TRUE,
          engine |-> [SchematicEngine(d.config) EXCEPT !.components = d.components,
                                                       !.connections = d.connections,
                                                       !.annotations = d.annotations]]

\* The labels of the components a document shows, as rendered, in order
ComponentLabels(svg) ==
    [i \in DOMAIN Section(svg, "components").items |->
        Section(svg, "components").items[i].texts[1]]

\* The names the engine of the model is asked to set
\* The items the engine of the model is given (two components share the id "a",
\* one connection ends at an id no component has), the config it is constructed
\* from and the names it is asked to set
EngineComponents == {c \in ComponentPool : c.id \in {"a", "b"}}
EngineConnections == {c \in ConnectionPool : c.from_node = "a"}
EngineConfigs == {cfg \in ConfigPool : ~cfg.show_grid}
EngineThemes == {"neon"}
EngineLayouts == { <<"grid", NoArgs>>, <<"circular", NoArgs>> }

-----------------------------------------------------------------------------
(* Specification of the layout calls: the factory is asked for an engine,  *)
(* and the engine it returns lays the components out.                      *)

ThemeIdle ==
    /\ theme_name = ""
    /\ theme = NotCalled
    /\ lookup = NotCalled

LayoutIdle ==
    /\ lay_request = <<"", NoArgs>>
    /\ lay_engine = NotCalled
    /\ lay_components = <<>>
    /\ lay_connections = <<>>
    /\ lay_config = SchematicConfig
    /\ lay_result = NotCalled
    /\ lay_before = NotCalled
    /\ lay_given = NotCalled
    /\ rng = random_seed(0)

RenderIdle ==
    /\ r_components = <<>>
    /\ r_connections = <<>>
    /\ r_positions = EmptyMap
    /\ r_config = SchematicConfig
    /\ r_annotations = <<>>
    /\ r_svg = NotCalled

EngineIdle ==
    /\ components = <<>>
    /\ connections = <<>>
    /\ annotations = <<>>
    /\ config = SchematicConfig
    /\ layout_engine = NotCalled
    /\ positions = [computed |-> FALSE, map |-> EmptyMap]
    /\ last = NotCalled
    /\ memo = [laid |-> 0]

LayoutInit ==
    /\ lay_request \in LayoutRequests
    /\ lay_engine = NotCalled
    /\ lay_components \in ComponentLists
    /\ lay_connections \in ConnectionLists
    /\ lay_config \in ConfigPool
    /\ lay_result = NotCalled
    /\ lay_before = NotCalled
    /\ lay_given = NotCalled
    /\ rng = random_seed(0)
    /\ ThemeIdle /\ RenderIdle /\ EngineIdle

LayGetEngine ==
    /\ lay_engine = NotCalled
    /\ lay_engine' = get_layout_engine(lay_request[1], lay_request[2])
    /\ UNCHANGED <<lay_request, lay_components, lay_connections, lay_config, lay_result,
                   lay_before, rng, lay_given>>
    /\ UNCHANGED <<themeVars, renderVars, engineVars>>

LayCalculate ==
    /\ lay_engine.ok
    /\ lay_result = NotCalled
    /\ \E result \in {calculate_positions(lay_engine.engine, lay_components,
                                          lay_connections, lay_config)} :
          /\ lay_result' = result
          /\ lay_components' = calculate_positions_leaves(lay_engine.engine,
                                                          lay_components, result)
    /\ lay_given' = [components |-> lay_components, connections |-> lay_connections]
    /\ rng' = RngAfterLayout(lay_engine.engine, lay_components, rng)
    /\ UNCHANGED <<lay_request, lay_engine, lay_connections, lay_config, lay_before>>
    /\ UNCHANGED <<themeVars, renderVars, engineVars>>

LayoutNext == LayGetEngine \/ LayCalculate

SpecLayout == LayoutInit /\ [][LayoutNext]_vars

\* ---- the same call made twice on one engine, other code drawing random numbers
\*      before and between (at most MaxDraws on top of those of the layout)
MaxDraws == 2          \* values other code draws from the generator

\* The engines called twice: the default of each kind, and short simulations
RepeatRequests ==
    { <<"hierarchical", NoArgs>>,
      <<"grid", NoArgs>>,
      <<"force", [iterations |-> 0]>>,
      <<"force", [iterations |-> 1]>>,
      <<"force", [iterations |-> 2]>> }

RepeatInit ==
    /\ LayoutInit
    /\ lay_request \in RepeatRequests

\* Other code of the process draws a value, random.random(), before the first call or
\* between the two
LayDraw ==
    /\ lay_before = NotCalled
    /\ rng.drawn < MaxDraws + (IF rng.seed = 42 THEN 2 * MaxNodes ELSE 0)
    /\ rng' = random_drawn(rng)
    /\ UNCHANGED <<lay_request, lay_engine, lay_components, lay_connections, lay_config,
                   lay_result, lay_before, lay_given>>
    /\ UNCHANGED <<themeVars, renderVars, engineVars>>

\* calculate_positions called a second time with the same arguments
LayCalculateAgain ==
    /\ lay_result # NotCalled
    /\ lay_before = NotCalled
    /\ lay_before' = [result |-> lay_result, rng |-> rng]
    /\ \E result \in {calculate_positions(lay_engine.engine, lay_components,
                                          lay_connections, lay_config)} :
          /\ lay_result' = result
          /\ lay_components' = calculate_positions_leaves(lay_engine.engine,
                                                          lay_components, result)
    /\ lay_given' = [components |-> lay_components, connections |-> lay_connections]
    /\ rng' = RngAfterLayout(lay_engine.engine, lay_components, rng)
    /\ UNCHANGED <<lay_request, lay_engine, lay_connections, lay_config>>
    /\ UNCHANGED <<themeVars, renderVars, engineVars>>

RepeatNext == LayGetEngine \/ LayCalculate \/ LayDraw \/ LayCalculateAgain

SpecLayoutTwice == RepeatInit /\ [][RepeatNext]_vars

-----------------------------------------------------------------------------
(* Specification of the theme manager: one is constructed from a name, and *)
(* the lookups are made on it.                                             *)

\* ThemeManager.__init__
ThemeConstruct ==
    /\ theme = NotCalled
    /\ theme' = _build_theme(theme_name)
    /\ UNCHANGED <<theme_name, lookup>>
    /\ UNCHANGED <<layoutVars, renderVars, engineVars>>

ThemeStatusColor ==
    /\ theme.ok
    /\ \E status \in StatusKeys :
          lookup' = [fn |-> "get_status_color", type |-> "", status |-> status]
                    @@ get_status_color(theme.colors, status)
    /\ UNCHANGED <<theme_name, theme>>
    /\ UNCHANGED <<layoutVars, renderVars, engineVars>>

ThemeComponentFill ==
    /\ theme.ok
    /\ \E type \in TypeKeys :
          lookup' = [fn |-> "get_component_fill", type |-> type, status |-> ""]
                    @@ get_component_fill(theme.colors, type)
    /\ UNCHANGED <<theme_name, theme>>
    /\ UNCHANGED <<layoutVars, renderVars, engineVars>>

ThemeComponentBorder ==
    /\ theme.ok
    /\ \E type \in TypeKeys, status \in StatusKeys :
          lookup' = [fn |-> "get_component_border", type |-> type, status |-> status]
                    @@ get_component_border(theme.colors, type, status)
    /\ UNCHANGED <<theme_name, theme>>
    /\ UNCHANGED <<layoutVars, renderVars, engineVars>>

ThemeInit ==
    /\ theme_name \in ThemeNames
    /\ theme = NotCalled
    /\ lookup = NotCalled
    /\ LayoutIdle /\ RenderIdle /\ EngineIdle

ThemeNext == ThemeConstruct \/ ThemeStatusColor \/ ThemeComponentFill \/ ThemeComponentBorder

SpecTheme == ThemeInit /\ [][ThemeNext]_vars

-----------------------------------------------------------------------------
(* Specification of the renderer: a renderer built on a theme manager is      *)
(* handed components, connections, a position map, a config and annotations.  *)

RenderInit ==
    /\ theme_name = "blueprint"
    /\ theme = _build_theme(theme_name)
    /\ lookup = NotCalled
    /\ r_components \in ComponentLists
    /\ r_connections \in ConnectionLists
    /\ r_positions \in PositionMaps
    /\ r_config \in ConfigPool
    /\ r_annotations \in AnnotationLists
    /\ r_svg = NotCalled
    /\ LayoutIdle /\ EngineIdle

Render ==
    /\ r_svg = NotCalled
    /\ r_svg' = render(theme, r_components, r_connections, r_positions, r_config, r_annotations)
    /\ UNCHANGED <<r_components, r_connections, r_positions, r_config, r_annotations>>
    /\ UNCHANGED <<themeVars, layoutVars, engineVars>>

RenderNext == Render

SpecRender == RenderInit /\ [][RenderNext]_vars

-----------------------------------------------------------------------------
(* Specification of the diagram engine: an engine is constructed from a      *)
(* config and its operations are called on it in any order.                  *)

\* The engine the variables hold, and the variables holding a given engine
Self ==
    [components |-> components, connections |-> connections, annotations |-> annotations,
     config |-> config, theme_name |-> theme_name, layout_engine |-> layout_engine,
     positions |-> positions]

EngineStore(self) ==
    /\ components' = self.components
    /\ connections' = self.connections
    /\ annotations' = self.annotations
    /\ config' = self.config
    /\ theme_name' = self.theme_name
    /\ theme' = _build_theme(self.theme_name)
    /\ layout_engine' = self.layout_engine
    /\ positions' = self.positions

\* The record of a call: its name, its argument, whether it returned, what it
\* returned ("self" for the engine it was called on), the engine before an add,
\* set or render call, whether the call before it was the same call, whether positions
\* were cached when it was made, and the documents rendered by it
Did(op, arg, returned) ==
    [op |-> op, arg |-> arg, ok |-> TRUE, returned |-> returned, before |-> [none |-> TRUE],
     again |-> FALSE, cached |-> FALSE, svg |-> NotCalled, copy |-> NotCalled]

NoArg == [none |-> TRUE]

Init ==
    /\ \E cfg \in EngineConfigs :
          /\ components = SchematicEngine(cfg).components
          /\ connections = SchematicEngine(cfg).connections
          /\ annotations = SchematicEngine(cfg).annotations
          /\ config = SchematicEngine(cfg).config
          /\ theme_name = SchematicEngine(cfg).theme_name
          /\ theme = _build_theme(SchematicEngine(cfg).theme_name)
          /\ layout_engine = SchematicEngine(cfg).layout_engine
          /\ positions = SchematicEngine(cfg).positions
    /\ lookup = NotCalled
    /\ last = Did("__init__", NoArg, "self")
    /\ memo = [laid |-> 0]
    /\ LayoutIdle /\ RenderIdle

AddNode ==
    /\ Len(components) < MaxNodes
    /\ \E component \in EngineComponents :
          /\ EngineStore(add_node(Self, component))
          /\ last' = [Did("add_node", component, "self") EXCEPT !.before = Self]
    /\ UNCHANGED <<lookup, memo, layoutVars, renderVars>>

AddConnector ==
    /\ Len(connections) < MaxConns
    /\ \E connection \in EngineConnections :
          /\ EngineStore(add_connector(Self, connection))
          /\ last' = [Did("add_connector", connection, "self") EXCEPT !.before = Self]
    /\ UNCHANGED <<lookup, memo, layoutVars, renderVars>>

AddAnnotation ==
    /\ Len(annotations) < MaxAnns
    /\ \E annotation \in AnnotationPool :
          /\ EngineStore(add_annotation(Self, annotation))
          /\ last' = [Did("add_annotation", annotation, "self") EXCEPT !.before = Self]
    /\ UNCHANGED <<lookup, memo, layoutVars, renderVars>>

SetTheme ==
    /\ \E name \in EngineThemes :
          /\ EngineStore(set_theme(Self, name))
          /\ last' = [Did("set_theme", [name |-> name], "self") EXCEPT !.before = Self]
    /\ UNCHANGED <<lookup, memo, layoutVars, renderVars>>

SetLayout ==
    /\ \E request \in EngineLayouts :
          LET set == set_layout(Self, request[1], request[2])
          IN /\ EngineStore(IF set.ok THEN set.self ELSE Self)
             /\ last' = [Did("set_layout", [name |-> request[1]],
                             IF set.ok THEN "self" ELSE set.error) EXCEPT !.ok = set.ok,
                                                                          !.before = Self]
    /\ UNCHANGED <<lookup, memo, layoutVars, renderVars>>

ApplyLayout ==
    /\ \E laid \in {apply_layout(Self)} : EngineStore(laid)
    /\ last' = [Did("apply_layout", NoArg, "self") EXCEPT !.again = (last.op = "apply_layout"),
                                                          !.cached = positions.computed]
    /\ memo' = [laid |-> Len(components)]
    /\ UNCHANGED <<lookup, layoutVars, renderVars>>

RenderSvg ==
    /\ \E rendered \in {render_svg(Self)} :
          /\ EngineStore(rendered.self)
          /\ last' = [Did("render_svg", NoArg, "svg") EXCEPT !.ok = rendered.svg.ok,
                                                             !.before = Self,
                                                             !.cached = positions.computed,
                                                             !.svg = rendered.svg]
    /\ memo' = IF positions.computed THEN memo ELSE [laid |-> Len(components)]
    /\ UNCHANGED <<lookup, layoutVars, renderVars>>

\* d = engine.to_dict(); copy = SchematicEngine.from_dict(d); copy.render_svg();
\* engine.render_svg()
RoundTrip ==
    /\ \E copy \in {from_dict(to_dict(Self))}, rendered \in {render_svg(Self)} :
          /\ last' = [Did("round_trip", NoArg, "svg") EXCEPT
                         !.ok = rendered.svg.ok,
                         !.before = Self,
                         !.cached = positions.computed,
                         !.svg = rendered.svg,
                         !.copy = IF copy.ok THEN render_svg(copy.engine).svg ELSE copy]
          /\ EngineStore(rendered.self)
    /\ memo' = IF positions.computed THEN memo ELSE [laid |-> Len(components)]
    /\ UNCHANGED <<lookup, layoutVars, renderVars>>

Next ==
    \/ AddNode \/ AddConnector \/ AddAnnotation
    \/ SetTheme \/ SetLayout
    \/ ApplyLayout \/ RenderSvg \/ RoundTrip

Spec == Init /\ [][Next]_vars

-----------------------------------------------------------------------------
(* Properties of the theme manager *)

KnownThemes == {"blueprint", "dark", "light"}

\* C8: constructing a theme manager raises nothing whatever the name; typography
\* and effects are the baseline ones; for a name that is not one of the three
\* pre-defined themes the palette is exactly the baseline palette, which is also
\* the blueprint palette; for a pre-defined name every color that differs from
\* the baseline is one of that theme's overrides, and every override is applied.
ThemeUnknownIsBaseline ==
    theme # NotCalled =>
        /\ theme.ok
        /\ theme.typography = SchematicTypography
        /\ theme.effects = SchematicEffects
        /\ theme_name \notin KnownThemes =>
              /\ theme.colors = SchematicColors
              /\ theme.colors = _build_theme("blueprint").colors
        /\ theme_name \in KnownThemes =>
              /\ \A key \in DOMAIN SchematicColors :
                    theme.colors[key] # SchematicColors[key] => key \in DOMAIN THEMES[theme_name]
              /\ \A key \in DOMAIN THEMES[theme_name] :
                    theme.colors[key] = THEMES[theme_name][key]

\* A theme manager was constructed from a name that is no pre-defined theme
ThemeUnknownBuilt == theme # NotCalled /\ theme.ok /\ theme_name = "neon"

ExpectedStatusColor(status) ==
    CASE status = "active" -> theme.colors.status_active
      [] status = "pending" -> theme.colors.status_pending
      [] status = "error" -> theme.colors.status_error
      [] OTHER -> theme.colors.status_inactive

ExpectedFill(type) ==
    CASE type = "service" -> theme.colors.service_fill
      [] type = "database" -> theme.colors.database_fill
      [] type = "gpu" -> theme.colors.gpu_fill
      [] type = "ai" -> theme.colors.ai_fill
      [] type = "api" -> theme.colors.api_fill
      [] type = "queue" -> theme.colors.queue_fill
      [] type = "external" -> theme.colors.external_fill
      [] OTHER -> theme.colors.surface_container

\* C9: the three lookups never fail; a status that is not one of the four known
\* ones gets the inactive color, a component type that is not one of the seven
\* known ones gets the container surface color, and the border color is the
\* primary color when the status is "active" and the status color otherwise.
ThemeLookupsTotal ==
    lookup # NotCalled =>
        /\ lookup.ok
        /\ lookup.fn = "get_status_color" => lookup.value = ExpectedStatusColor(lookup.status)
        /\ lookup.fn = "get_component_fill" => lookup.value = ExpectedFill(lookup.type)
        /\ lookup.fn = "get_component_border" =>
              lookup.value = IF lookup.status = "active" THEN theme.colors.primary
                             ELSE ExpectedStatusColor(lookup.status)

\* The border color was looked up for a status that is not a known one
ThemeBorderOfUnknownStatus ==
    /\ lookup # NotCalled
    /\ lookup.ok
    /\ lookup.fn = "get_component_border"
    /\ lookup.status = "unknown"
    /\ lookup.value = theme.colors.status_inactive

-----------------------------------------------------------------------------
(* Properties of the layout factory and of the layout engines *)

\* C7: the factory resolves exactly the names "hierarchical", "force" and "grid",
\* each to the engine of that kind built from the keyword arguments; for any
\* other name it constructs no engine and fails with the error that names the
\* unknown layout type and enumerates the three valid names.
FactoryRejectsUnknownNames ==
    lay_engine # NotCalled =>
        /\ lay_request[1] \in {"hierarchical", "force", "grid"} =>
              /\ lay_engine.ok => /\ lay_engine.engine.kind = lay_request[1]
                                  /\ \A k \in DOMAIN lay_request[2] :
                                        lay_engine.engine[k] = lay_request[2][k]
              /\ ~lay_engine.ok => lay_engine.error = "TypeError"
        /\ lay_request[1] \notin {"hierarchical", "force", "grid"} =>
              /\ ~lay_engine.ok
              /\ lay_engine.error = "ValueError"
              /\ lay_engine.message.text = "Unknown layout type"
              /\ lay_engine.message.name = lay_request[1]
              /\ lay_engine.message.available = <<"hierarchical", "force", "grid">>

\* The factory was asked for a name it does not know and has answered
FactoryAskedUnknownName ==
    /\ lay_engine # NotCalled
    /\ lay_request[1] = "circular"
    /\ ~lay_engine.ok

\* C10: laying out an empty component list gives, with each of the three engines,
\* an empty position map and the bounds (0, 0, width, height) of the canvas.
EmptyLayoutIsCanvas ==
    (lay_result # NotCalled /\ lay_components = <<>>) =>
        /\ lay_result.ok
        /\ DOMAIN lay_result.positions = {}
        /\ lay_result.bounds = <<FInt(0), FInt(0), FInt(lay_config.width), FInt(lay_config.height)>>

\* The grid engine has laid out an empty list on the small canvas
EmptyLayoutByGrid ==
    /\ lay_result # NotCalled
    /\ lay_components = <<>>
    /\ lay_engine.ok /\ lay_engine.engine.kind = "grid"
    /\ lay_config.width = 300
    /\ lay_result.ok

-----------------------------------------------------------------------------
(* Properties of the renderer *)

\* The indices of the components, and of the connections, that the position map
\* places, and the rank of such an index among them
PlacedComponents == {i \in DOMAIN r_components : r_components[i].id \in DOMAIN r_positions}
PlacedConnections ==
    {i \in DOMAIN r_connections : /\ r_connections[i].from_node \in DOMAIN r_positions
                                  /\ r_connections[i].to_node \in DOMAIN r_positions}
RankIn(S, i) == Cardinality({j \in S : j <= i})

\* C1: render never fails for a missing position; the components layer holds one
\* element for each component whose id is in the position map, in input order and
\* at the mapped position, and none for the others; the connections layer holds
\* one element for each connection whose two ends are both in the map, in input
\* order, and none for the others.
RenderSkipsUnplaced ==
    r_svg # NotCalled =>
        /\ r_svg.ok
        /\ LET items == Section(r_svg, "components").items
           IN /\ Len(items) = Cardinality(PlacedComponents)
              /\ \A i \in PlacedComponents :
                    LET e == items[RankIn(PlacedComponents, i)]
                    IN /\ e.data_id = r_components[i].id
                       /\ e.data_type = r_components[i].type
                       /\ e.texts[1] = html_escape(r_components[i].label)
                       /\ <<e.x, e.y>> = r_positions[r_components[i].id]
        /\ LET items == Section(r_svg, "connections").items
           IN /\ Len(items) = Cardinality(PlacedConnections)
              /\ \A i \in PlacedConnections :
                    LET e == items[RankIn(PlacedConnections, i)]
                    IN /\ e.data_from = r_connections[i].from_node
                       /\ e.data_to = r_connections[i].to_node

\* Rendered: two components of which the map places only the second, and a
\* connection that ends at an id the map does not hold
RenderedWithUnplaced ==
    /\ r_svg # NotCalled
    /\ r_svg.ok
    /\ Len(r_components) = 2
    /\ r_components[1].id \notin DOMAIN r_positions
    /\ r_components[2].id \in DOMAIN r_positions
    /\ Len(r_connections) = 1
    /\ r_connections[1].from_node \in DOMAIN r_positions
    /\ r_connections[1].to_node \notin DOMAIN r_positions
    /\ Len(Section(r_svg, "components").items) = 1
    /\ Section(r_svg, "connections").items = <<>>

-----------------------------------------------------------------------------
(* Properties of the diagram engine *)

DistinctIds(comps) == \A i, j \in DOMAIN comps : comps[i].id = comps[j].id => i = j

\* The elements of the components layer of a rendered document
ComponentItems(svg) == Section(svg, "components").items

\* C2: when render_svg is called on an engine that has no positions yet, it
\* returns a document, the engine then has a position map, which is the one the
\* layout engine computes from the components, connections and config, and, the
\* component ids being distinct, the map holds exactly one entry for every
\* component and the document shows every component at its position in the map.
EngineRenderLaysOutFirst ==
    (last.op = "render_svg" /\ ~last.cached) =>
        /\ last.ok
        /\ positions.computed
        /\ positions.map = calculate_positions(layout_engine, components, connections,
                                               config).positions
        /\ DistinctIds(components) =>
              /\ DOMAIN positions.map = Ids(components)
              /\ Cardinality(DOMAIN positions.map) = Len(components)
              /\ Len(ComponentItems(last.svg)) = Len(components)
              /\ \A i \in DOMAIN components :
                    /\ ComponentItems(last.svg)[i].data_id = components[i].id
                    /\ <<ComponentItems(last.svg)[i].x, ComponentItems(last.svg)[i].y>>
                          = positions.map[components[i].id]

\* render_svg has laid out and rendered two components of distinct ids
EngineRenderedUnlaidPair ==
    /\ last.op = "render_svg"
    /\ ~last.cached
    /\ Len(components) = 2
    /\ DistinctIds(components)
    /\ Len(ComponentItems(last.svg)) = 2

\* The ids of the components the cached position map was computed from
LaidIds == {components[i].id : i \in 1..memo.laid}

EngineLayoutFromScratch ==
    last.op = "apply_layout" =>
        /\ positions.computed
        /\ positions.map = calculate_positions(layout_engine, components, connections,
                                               config).positions
        /\ apply_layout(Self).positions = positions

\* apply_layout was called twice in a row on two components
EngineLayoutAppliedTwice ==
    /\ last.op = "apply_layout"
    /\ last.again
    /\ last.cached
    /\ Len(components) = 2

\* C5: add_node, add_connector and add_annotation each leave the engine with the
\* given item appended to their own list, the other two lists, the config, the
\* theme and the layout engine as they were, and return the engine.
EngineAddAppends ==
    /\ last.op = "add_node" =>
          /\ components = last.before.components \o <<last.arg>>
          /\ connections = last.before.connections
          /\ annotations = last.before.annotations
    /\ last.op = "add_connector" =>
          /\ connections = last.before.connections \o <<last.arg>>
          /\ components = last.before.components
          /\ annotations = last.before.annotations
    /\ last.op = "add_annotation" =>
          /\ annotations = last.before.annotations \o <<last.arg>>
          /\ components = last.before.components
          /\ connections = last.before.connections
    /\ last.op \in {"add_node", "add_connector", "add_annotation"} =>
          /\ config = last.before.config
          /\ theme_name = last.before.theme_name
          /\ layout_engine = last.before.layout_engine
          /\ last.returned = "self"

\* A second component was added to an engine that has a connection
EngineAddedSecondNode ==
    /\ last.op = "add_node"
    /\ Len(components) = 2
    /\ components[1] # components[2]
    /\ connections # <<>>

-----------------------------------------------------------------------------
(* Hierarchical layout: the layers along the primary axis *)

\* A calculate_positions call of a hierarchical engine on a non-empty list has returned
HierarchicalDone ==
    /\ lay_result # NotCalled
    /\ lay_engine.engine.kind = "hierarchical"
    /\ lay_components # <<>>

\* The coordinate along which the layers are stacked: y for TB and BT, x for LR and RL
PrimaryOf(i) ==
    IF lay_engine.engine.direction \in {"TB", "BT"}
    THEN lay_result.positions[lay_components[i].id][2]
    ELSE lay_result.positions[lay_components[i].id][1]

\* The coordinate across the layers
SecondaryOf(i) ==
    IF lay_engine.engine.direction \in {"TB", "BT"}
    THEN lay_result.positions[lay_components[i].id][1]
    ELSE lay_result.positions[lay_components[i].id][2]

\* The room between the paddings along the primary axis
PrimaryRoom ==
    IF lay_engine.engine.direction \in {"TB", "BT"}
    THEN lay_config.height - (lay_config.padding * 2)
    ELSE lay_config.width - (lay_config.padding * 2)

\* Components of one layer share the primary coordinate; a higher layer lies strictly
\* further along the direction
LayersInOrder ==
    \A i, j \in DOMAIN lay_components :
        /\ lay_components[i].layer = lay_components[j].layer => PrimaryOf(i) = PrimaryOf(j)
        /\ lay_components[i].layer < lay_components[j].layer =>
              IF lay_engine.engine.direction \in {"TB", "LR"}
              THEN FLess(PrimaryOf(i), PrimaryOf(j))
              ELSE FLess(PrimaryOf(j), PrimaryOf(i))

\* C11 as stated: for any non-empty component list and any config, the components of
\* the lowest layer share the primary coordinate, and the primary coordinate strictly
\* increases (TB, LR) or decreases (BT, RL) from each layer to the next
HierarchicalLayersOrderedAlways == HierarchicalDone => LayersInOrder

\* C11: the same, for components with pairwise distinct ids on a canvas with room
\* between its paddings along the primary axis
HierarchicalLayersOrdered ==
    (HierarchicalDone /\ DistinctIds(lay_components) /\ PrimaryRoom > 0) => LayersInOrder

\* Two layers laid out bottom to top
HierarchicalTwoLayers ==
    /\ HierarchicalDone /\ DistinctIds(lay_components) /\ PrimaryRoom > 0
    /\ lay_engine.engine.direction = "BT"
    /\ \E i, j \in DOMAIN lay_components : lay_components[i].layer < lay_components[j].layer

-----------------------------------------------------------------------------
(* Hierarchical layout, top to bottom: the components of one layer *)

\* Two components with different ids in one layer of a top-to-bottom layout
LayerMates(i, j) ==
    /\ HierarchicalDone
    /\ lay_engine.engine.direction = "TB"
    /\ lay_components[i].id # lay_components[j].id
    /\ lay_components[i].layer = lay_components[j].layer

\* comp.size[0] if comp.size else 140: twice the half-width the alignment subtracts
WidthOr140(comp) == IF comp.size # None THEN comp.size[1] ELSE 140

\* The alignment keeps the two apart: centred places on a canvas with width # 2*padding,
\* or a node_spacing greater than the difference of the two half-widths
KeptApart(i, j) ==
    IF lay_engine.engine.align \in {"left", "right"}
    THEN lay_engine.engine.node_spacing * 2
            > Abs(WidthOr140(lay_components[i]) - WidthOr140(lay_components[j]))
    ELSE lay_config.width # lay_config.padding * 2

\* C12 as stated: two components of one layer get the same y and different x, for
\* every alignment mode and config
LayerMatesApartAlways ==
    \A i, j \in DOMAIN lay_components :
        LayerMates(i, j) => /\ PrimaryOf(i) = PrimaryOf(j)
                            /\ SecondaryOf(i) # SecondaryOf(j)

\* C12: in a list with pairwise distinct ids, two components of one layer get the
\* same y, and different x when the alignment keeps them apart
LayerMatesApart ==
    \A i, j \in DOMAIN lay_components :
        (LayerMates(i, j) /\ DistinctIds(lay_components)) =>
                            /\ PrimaryOf(i) = PrimaryOf(j)
                            /\ KeptApart(i, j) => SecondaryOf(i) # SecondaryOf(j)

\* Two components of one layer, aligned to the right
LayerMatesAlignedRight ==
    /\ lay_result # NotCalled
    /\ \E i, j \in DOMAIN lay_components :
          /\ LayerMates(i, j) /\ KeptApart(i, j) /\ DistinctIds(lay_components)
          /\ lay_engine.engine.align = "right"

-----------------------------------------------------------------------------
(* Grid layout: the cell of each item *)

\* A calculate_positions call of a grid engine on a non-empty list has returned
GridDone ==
    /\ lay_result # NotCalled
    /\ lay_engine.engine.kind = "grid"
    /\ lay_components # <<>>

\* Row and column of the item at index i (from 0)
GridRow(i) == i \div lay_engine.engine.columns

GridCol(i) == i % lay_engine.engine.columns

\* The centre of the cell in row and column, in halves of a pixel
CellCentre(row, col) ==
    LET g == lay_engine.engine
    IN <<Frac((2 * (lay_config.padding + (col * (g.cell_width + g.gap)))) + g.cell_width, 2),
         Frac((2 * (lay_config.padding + (row * (g.cell_height + g.gap)))) + g.cell_height, 2)>>

\* The position the result holds for the item at index i (from 0)
GridAt(i) == lay_result.positions[lay_components[i + 1].id]

\* Every item sits at the centre of its cell; a row shares its y and a later row has a
\* greater one
GridCells ==
    \A i, j \in 0..(Len(lay_components) - 1) :
        /\ GridAt(i) = CellCentre(GridRow(i), GridCol(i))
        /\ GridRow(i) = GridRow(j) => GridAt(i)[2] = GridAt(j)[2]
        /\ GridRow(i) < GridRow(j) => FLess(GridAt(i)[2], GridAt(j)[2])

-----------------------------------------------------------------------------
(* Force-directed layout: determinism *)

\* calculate_positions of a force engine has returned twice
ForceRanTwice ==
    /\ lay_before # NotCalled
    /\ lay_engine.engine.kind = "force"

\* C14: two runs of the force-directed layout on the same components, connections and
\* config return the same position map (and bounds), whatever was drawn from the
\* random generator before and between them
ForceRunsAgree == ForceRanTwice => lay_result = lay_before.result

\* Two runs on a ring of two components: the first drew four values, the second found
\* the generator one value further and ran one iteration from there
ForceRanTwiceAfterDraws ==
    /\ ForceRanTwice
    /\ Len(lay_components) = 2
    /\ \A i \in DOMAIN lay_components : lay_components[i].position = None
    /\ lay_before.rng = [seed |-> 42, drawn |-> 5]
    /\ lay_engine.engine.iterations = 1
    /\ lay_result.positions # [id \in Ids(lay_components) |->
                                  <<Frac(lay_config.width, 2), Frac(lay_config.height, 2)>>]

-----------------------------------------------------------------------------
(* Force-directed layout: where the simulation leaves the components *)

\* calculate_positions of a force engine on a non-empty list has returned
ForceDone ==
    /\ lay_result # NotCalled
    /\ lay_engine.engine.kind = "force"
    /\ lay_components # <<>>

\* C15 as stated: in the position map the force-directed layout returns, two
\* components with distinct ids never have the same (x, y), whatever the explicit
\* positions, the canvas size and the padding
ForceKeepsApart ==
    ForceDone =>
        \A i, j \in DOMAIN lay_components :
            lay_components[i].id # lay_components[j].id =>
                lay_result.positions[lay_components[i].id]
                    # lay_result.positions[lay_components[j].id]

\* Two components with distinct ids returned on one point of a canvas of 200 by 100
ForceCollapsed ==
    /\ ForceDone
    /\ lay_config.width = 200 /\ lay_config.height = 100 /\ lay_config.padding = 50
    /\ lay_engine.engine.iterations = 100
    /\ Ids(lay_components) = {"a", "b"}
    /\ lay_result.positions["a"] = <<FInt(100), FInt(100)>>
    /\ lay_result.positions["b"] = <<FInt(100), FInt(100)>>

\* padding + 50 <= v <= limit - (padding + 50)
WithinMargin(v, limit) ==
    /\ FLeq(FInt(lay_config.padding + 50), v)
    /\ FLeq(v, FInt(limit - (lay_config.padding + 50)))

\* C16 as stated: every position the force-directed layout returns lies within
\* padding + 50 of the canvas edges, for every iteration count and canvas size
ForceWithinMarginAlways ==
    ForceDone =>
        \A id \in DOMAIN lay_result.positions :
            /\ WithinMargin(lay_result.positions[id][1], lay_config.width)
            /\ WithinMargin(lay_result.positions[id][2], lay_config.height)

\* v is at least padding + 50, and at most limit - (padding + 50) when the canvas
\* leaves room between the two margins
WithinMarginIfRoom(v, limit) ==
    /\ FLeq(FInt(lay_config.padding + 50), v)
    /\ limit >= 2 * (lay_config.padding + 50) => FLeq(v, FInt(limit - (lay_config.padding + 50)))

\* C16: after at least one iteration every position is at least padding + 50 in x and
\* y, and at most width - (padding + 50), height - (padding + 50) on a canvas at
\* least 2 * (padding + 50) wide, high
ForceWithinMargin ==
    (ForceDone /\ lay_engine.engine.iterations >= 1) =>
        \A id \in DOMAIN lay_result.positions :
            /\ WithinMarginIfRoom(lay_result.positions[id][1], lay_config.width)
            /\ WithinMarginIfRoom(lay_result.positions[id][2], lay_config.height)

\* One iteration has brought c from its explicit position (450, 300), outside the
\* canvas of 300 by 200, to the corner of the margins
ForceClampedExplicit ==
    /\ ForceDone
    /\ lay_engine.engine.iterations = 1
    /\ lay_config.width = 300
    /\ "c" \in DOMAIN lay_result.positions
    /\ lay_result.positions["c"] = <<FInt(230), FInt(130)>>

-----------------------------------------------------------------------------
(* Layout and connections whose ends are no components *)

\* The connections both ends of which are ids of components
Resolved(conns, comps) ==
    SelectSeq(conns, LAMBDA c : c.from_node \in Ids(comps) /\ c.to_node \in Ids(comps))

\* C17: calculate_positions does not fail on a connection one end of which is no
\* component id; the hierarchical and the grid engine return what they return without
\* any connection, the force engine what it returns with those connections removed
LayoutIgnoresDangling ==
    lay_result # NotCalled =>
        /\ lay_result.ok
        /\ lay_result = calculate_positions(lay_engine.engine, lay_components,
                                            Resolved(lay_connections, lay_components),
                                            lay_config)
        /\ lay_engine.engine.kind \in {"hierarchical", "grid"} =>
              lay_result = calculate_positions(lay_engine.engine, lay_components, <<>>,
                                               lay_config)

\* A force simulation of two iterations with a connection from a to the unknown id x
ForceWithDangling ==
    /\ ForceDone
    /\ lay_engine.engine.iterations = 2
    /\ Ids(lay_components) = {"a", "b"}
    /\ \E e \in DOMAIN lay_connections :
          lay_connections[e].from_node = "a" /\ lay_connections[e].to_node = "x"

-----------------------------------------------------------------------------
(* The rendered document: its sections and their order *)

\* The sections a document may hold, in the order of the pipeline
SectionOrder ==
    <<"header", "defs", "background", "grid", "connections", "components", "annotations",
      "title", "legend", "version_badge", "footer">>

\* The section is due for the arguments of the call
SectionDue(name) ==
    CASE name = "grid" -> r_config.show_grid
      [] name = "annotations" -> r_annotations # <<>>
      [] name = "title" -> r_config.show_title
      [] name = "legend" -> r_config.show_legend
      [] name = "version_badge" -> r_config.version_badge # <<>>
      [] OTHER -> TRUE

\* The names of the sections of the rendered document, first to last
SectionsOf(svg) == [i \in DOMAIN svg.parts |-> svg.parts[i].section]

\* C18: the document holds its sections in the one order header (XML declaration and
\* <svg>), defs, background, grid, connections, components, annotations, title, legend,
\* version badge, footer (</svg>); grid, annotations, title, legend and badge are there
\* iff show_grid, annotations given and non-empty, show_title, show_legend and
\* version_badge non-empty, and every other section always
RenderSectionsInOrder ==
    r_svg # NotCalled =>
        /\ r_svg.ok
        /\ SectionsOf(r_svg) = SelectSeq(SectionOrder, SectionDue)

\* A document with annotations and badge, without grid and title
RenderedWithoutGrid ==
    /\ r_svg # NotCalled
    /\ r_svg.ok
    /\ ~r_config.show_grid /\ ~r_config.show_title /\ r_config.show_legend
    /\ r_annotations # <<>>
    /\ r_config.version_badge # <<>>
    /\ Len(r_svg.parts) = 9

-----------------------------------------------------------------------------
(* The rendered document: escaped text *)

\* The character references html.escape writes
Entities ==
    { <<"&", "a", "m", "p", ";">>, <<"&", "l", "t", ";">>, <<"&", "g", "t", ";">>,
      <<"&", "q", "u", "o", "t", ";">>, <<"&", "#", "x", "2", "7", ";">> }

\* A character reference starts at place i of the text
EntityAt(text, i) ==
    \E e \in Entities :
        /\ i + Len(e) - 1 <= Len(text)
        /\ SubSeq(text, i, i + Len(e) - 1) = e

\* No '<' and no '>' in the text, and every '&' starts a character reference
NoRawMarkup(text) ==
    \A i \in DOMAIN text :
        /\ text[i] \notin {"<", ">"}
        /\ text[i] = "&" => EntityAt(text, i)

\* The texts the sections of a document embed: aria-label, title, version badge, and
\* the texts of annotations, components (label, sublabel) and connections (label)
EmbeddedTexts(svg) ==
    UNION { (IF "aria_label" \in DOMAIN svg.parts[p].attrs
             THEN {svg.parts[p].attrs.aria_label} ELSE {})
            \cup (IF svg.parts[p].section \in {"title", "version_badge"}
                  THEN {svg.parts[p].attrs.text} ELSE {})
            \cup (IF svg.parts[p].section = "annotations"
                  THEN {svg.parts[p].items[i].text : i \in DOMAIN svg.parts[p].items}
                  ELSE {})
            \cup (IF svg.parts[p].section \in {"components", "connections"}
                  THEN UNION { Range(svg.parts[p].items[i].texts) :
                                  i \in DOMAIN svg.parts[p].items }
                  ELSE {})
            : p \in DOMAIN svg.parts }

\* The texts the caller supplied that the document shows: a queue and an external
\* box show no sublabel, a connection without label no text
SuppliedTexts ==
    {r_config.title}
    \cup (IF r_config.version_badge # <<>> THEN {r_config.version_badge} ELSE {})
    \cup {r_annotations[i].text : i \in DOMAIN r_annotations}
    \cup {r_components[i].label : i \in PlacedComponents}
    \cup {r_components[i].sublabel :
             i \in {j \in PlacedComponents : r_components[j].type \notin {"queue", "external"}}}
    \cup {r_connections[i].label :
             i \in {j \in PlacedConnections : r_connections[j].label # <<>>}}

\* C19: the labels, sublabels, connection labels, the title (aria-label and title
\* text), the version badge and the annotation texts reach the document escaped: every
\* supplied text is embedded as html.escape of it, and no embedded text holds a raw
\* '<', '>' or '&'
RenderEscapesText ==
    (r_svg # NotCalled /\ r_svg.ok) =>
        /\ \A text \in EmbeddedTexts(r_svg) : NoRawMarkup(text)
        /\ \A text \in SuppliedTexts : html_escape(text) \in EmbeddedTexts(r_svg)

\* A document showing the label A& and the connection label <H, titled <T
RenderedMarkupCharacters ==
    /\ r_svg # NotCalled /\ r_svg.ok
    /\ <<"A", "&">> \in {r_components[i].label : i \in PlacedComponents}
    /\ <<"<", "H">> \in {r_connections[i].label : i \in PlacedConnections}
    /\ r_config.title = <<"<", "T">>
    /\ <<"&", "l", "t", ";", "T">> \in EmbeddedTexts(r_svg)
    /\ <<"A", "&", "a", "m", "p", ";">> \in EmbeddedTexts(r_svg)

-----------------------------------------------------------------------------
(* The component library (library.py): pre-built nodes, the three diagram    *)
(* templates and their registry.  A text without markup characters is kept   *)
(* as one element of its sequence.                                           *)

slate_dashboard(status) ==
    ServiceNode("dashboard", <<"Dashboard">>, <<":8080">>, None, status, 0)

slate_ollama(status) == AINode("ollama", <<"Ollama">>, <<":11434">>, None, status, 2)

slate_foundry(status) == AINode("foundry", <<"Foundry Local">>, <<":5272">>, None, status, 2)

slate_chromadb(status) ==
    DatabaseNode("chromadb", <<"ChromaDB">>, <<"Vector Store">>, None, status, 2)

slate_dual_gpu(status) ==
    GPUNode("gpu-cluster", <<"Dual GPU">>, <<"RTX 5070 Ti x2">>, None, status, 3)

\* index is 0 or 1 in the templates; id and label are formatted from it
slate_gpu(index, status) ==
    GPUNode(<<"gpu-0", "gpu-1">>[index + 1], <<<<"GPU 0", "GPU 1">>[index + 1]>>,
            <<"RTX 5070 Ti 16GB">>, None, status, 3)

\* slate_runner under another id: the templates' connections still name "runner"
slate_runner_renamed(status) ==
    ServiceNode("github-runner", <<"slate-runner">>, <<"GitHub Actions">>, None, status, 1)


slate_runner(status) ==
    ServiceNode("runner", <<"slate-runner">>, <<"GitHub Actions">>, None, status, 1)

slate_vscode(status) == ServiceNode("vscode", <<"VS Code">>, <<"@slate">>, None, status, 0)

slate_claude(status) == AINode("claude", <<"Claude Code">>, <<"MCP Server">>, None, status, 0)

slate_task_router(status) ==
    ServiceNode("task-router", <<"Task Router">>, <<"Agent Dispatch">>, None, status, 1)

slate_workflow_manager(status) ==
    ServiceNode("workflow-mgr", <<"Workflow Manager">>, <<"Task Lifecycle">>, None, status, 1)

\* name and size as the templates pass them: id "model-" + name, label "slate-" + name,
\* sublabel size + " (GPU " + gpu_index + ")"
slate_model(name, size, gpu_index) ==
    AINode(CASE name = "coder" -> "model-coder"
             [] name = "fast" -> "model-fast"
             [] name = "planner" -> "model-planner",
           <<CASE name = "coder" -> "slate-coder"
               [] name = "fast" -> "slate-fast"
               [] name = "planner" -> "slate-planner">>,
           <<size, " (GPU ", <<"0", "1">>[gpu_index + 1], ")">>, None, "active", 2)

\* FlowConnector and DashedConnector calls without label
NoLabel == <<>>

get_slate_system_template ==
    [components |->
        << slate_dashboard("active"),
           ServiceNode("cli", <<"CLI Tools">>, <<"slate/">>, None, "active", 0),
           slate_vscode("active"),
           slate_claude("active"),
           slate_task_router("active"),
           slate_workflow_manager("active"),
           slate_runner("active"),
           slate_ollama("active"),
           slate_foundry("active"),
           slate_chromadb("active"),
           slate_dual_gpu("active") >>,
     connections |->
        << FlowConnector("c1", "dashboard", "task-router", <<"HTTP">>),
           FlowConnector("c2", "cli", "task-router", NoLabel),
           FlowConnector("c3", "vscode", "task-router", <<"LM API">>),
           FlowConnector("c4", "claude", "task-router", <<"MCP">>),
           FlowConnector("c5", "task-router", "workflow-mgr", NoLabel),
           FlowConnector("c6", "task-router", "runner", NoLabel),
           FlowConnector("c7", "workflow-mgr", "ollama", NoLabel),
           FlowConnector("c8", "workflow-mgr", "foundry", NoLabel),
           FlowConnector("c9", "runner", "ollama", NoLabel),
           FlowConnector("c10", "ollama", "gpu-cluster", <<"CUDA">>),
           FlowConnector("c11", "foundry", "gpu-cluster", NoLabel),
           DashedConnector("c12", "ollama", "chromadb", <<"Embed">>) >>]

get_ai_inference_template ==
    [components |->
        << ServiceNode("agent", <<"SLATE Agent">>, <<"Task Executor">>, None, "active", 0),
           ServiceNode("copilot", <<"Copilot Chat">>, <<"@slate">>, None, "active", 0),
           slate_task_router("active"),
           slate_model("coder", "12B", 0),
           slate_model("fast", "3B", 1),
           slate_model("planner", "7B", 0),
           slate_gpu(0, "active"),
           slate_gpu(1, "active"),
           slate_chromadb("active") >>,
     connections |->
        << FlowConnector("c1", "agent", "task-router", NoLabel),
           FlowConnector("c2", "copilot", "task-router", NoLabel),
           FlowConnector("c3", "task-router", "model-coder", <<"Code Tasks">>),
           FlowConnector("c4", "task-router", "model-fast", <<"Classify">>),
           FlowConnector("c5", "task-router", "model-planner", <<"Plan">>),
           FlowConnector("c6", "model-coder", "gpu-0", <<"CUDA">>),
           FlowConnector("c7", "model-fast", "gpu-1", <<"CUDA">>),
           FlowConnector("c8", "model-planner", "gpu-0", <<"CUDA">>),
           DashedConnector("c9", "model-coder", "chromadb", <<"RAG">>) >>]

get_cicd_pipeline_template ==
    [components |->
        << ExternalNode("github", <<"GitHub">>, <<"Push/PR">>, None, "active", 0),
           slate_runner("active"),
           ServiceNode("lint", <<"Lint">>, <<"ruff">>, None, "active", 2),
           ServiceNode("test", <<"Test">>, <<"pytest">>, None, "active", 2),
           ServiceNode("sdk-check", <<"SDK Validate">>, <<"SLATE SDK">>, None, "active", 2),
           ServiceNode("security", <<"Security">>, <<"CodeQL">>, None, "active", 2),
           AINode("ai-test", <<"GPU Inference">>, <<"Agentic">>, None, "active", 2),
           ServiceNode("deploy", <<"Deploy">>, <<"CD Pipeline">>, None, "pending", 3) >>,
     connections |->
        << FlowConnector("c1", "github", "runner", <<"Webhook">>),
           FlowConnector("c2", "runner", "lint", NoLabel),
           FlowConnector("c3", "runner", "test", NoLabel),
           FlowConnector("c4", "runner", "sdk-check", NoLabel),
           FlowConnector("c5", "runner", "security", NoLabel),
           FlowConnector("c6", "runner", "ai-test", NoLabel),
           DashedConnector("c7", "test", "deploy", <<"Pass">>) >>]

\* list(TEMPLATES.keys())
TemplateKeys == <<"system", "inference", "cicd">>

\* The registry: name, description, the value of factory() and config of each template
TEMPLATES ==
    [system |->
        [name |-> "SLATE System Architecture",
         description |-> "Full system architecture with all layers",
         factory |-> get_slate_system_template,
         config |-> [SchematicConfig EXCEPT !.title = <<"SLATE System Architecture">>,
                                            !.width = 1000, !.height = 700,
                                            !.version_badge = <<"v2.5">>]],
     inference |->
        [name |-> "AI Inference Pipeline",
         description |-> "Model routing and GPU assignment",
         factory |-> get_ai_inference_template,
         config |-> [SchematicConfig EXCEPT !.title = <<"SLATE AI Inference Pipeline">>,
                                            !.width = 900, !.height = 600,
                                            !.version_badge = <<"v2.5">>]],
     cicd |->
        [name |-> "CI/CD Pipeline",
         description |-> "GitHub Actions workflow pipeline",
         factory |-> get_cicd_pipeline_template,
         config |-> [SchematicConfig EXCEPT !.title = <<"SLATE CI/CD Pipeline">>,
                                            !.width = 900, !.height = 600]]]

list_templates ==
    [i \in DOMAIN TemplateKeys |->
        [id |-> TemplateKeys[i], name |-> TEMPLATES[TemplateKeys[i]].name,
         description |-> TEMPLATES[TemplateKeys[i]].description]]

RECURSIVE AddAll(_, _, _)
\* for comp in components: engine.add_node(comp); for conn in connections:
\* engine.add_connector(conn)
AddAll(engine, comps, conns) ==
    IF comps # <<>> THEN AddAll(add_node(engine, Head(comps)), Tail(comps), conns)
    ELSE IF conns # <<>> THEN AddAll(add_connector(engine, Head(conns)), comps, Tail(conns))
    ELSE engine

\* build_from_template falling back to the system template for an unknown id
build_from_template_lenient(template_id) ==
    CHOOSE result \in
        { [ok |-> TRUE, svg |-> rendered.svg, engine |-> rendered.self] :
          rendered \in { render_svg(AddAll(SchematicEngine(template.config),
                                           template.factory.components,
                                           template.factory.connections)) :
                         template \in {IF template_id \in Range(TemplateKeys)
                                       THEN TEMPLATES[template_id]
                                       ELSE TEMPLATES["system"]} } } : TRUE

\* build_from_template: the document, with the engine that was built for it, or
\* KeyError before any engine is built
build_from_template(template_id) ==
    IF template_id \notin Range(TemplateKeys)
    THEN Raise("KeyError", [text |-> "Unknown template", name |-> template_id,
                            available |-> TemplateKeys])
    ELSE CHOOSE result \in
            { [ok |-> TRUE, svg |-> rendered.svg, engine |-> rendered.self] :
              rendered \in { render_svg(AddAll(SchematicEngine(template.config),
                                               template.factory.components,
                                               template.factory.connections)) :
                             template \in {TEMPLATES[template_id]} } } : TRUE

-----------------------------------------------------------------------------
(* Calls of the library: pre-built nodes, list_templates, build_from_template *)

MaxCalls == 2          \* calls made on the library in one behaviour

\* ComponentStatus
ComponentStatuses == {"active", "pending", "error", "inactive"}

\* The pre-built nodes made from a status alone
PrebuiltNode(name, status) ==
    CASE name = "slate_dashboard" -> slate_dashboard(status)
      [] name = "slate_ollama" -> slate_ollama(status)
      [] name = "slate_foundry" -> slate_foundry(status)
      [] name = "slate_chromadb" -> slate_chromadb(status)
      [] name = "slate_dual_gpu" -> slate_dual_gpu(status)
      [] name = "slate_runner" -> slate_runner(status)
      [] name = "slate_vscode" -> slate_vscode(status)
      [] name = "slate_claude" -> slate_claude(status)
      [] name = "slate_task_router" -> slate_task_router(status)
      [] name = "slate_workflow_manager" -> slate_workflow_manager(status)

PrebuiltNames ==
    {"slate_dashboard", "slate_ollama", "slate_foundry", "slate_chromadb", "slate_dual_gpu",
     "slate_runner", "slate_vscode", "slate_claude", "slate_task_router",
     "slate_workflow_manager"}

\* The ids build_from_template is asked for: the registered ones and others
TemplateIds == {"system", "inference", "cicd", "nonexistent", "", "System", "ci/cd"}

LibraryInit ==
    /\ ThemeIdle /\ LayoutIdle /\ RenderIdle
    /\ components = <<>>
    /\ connections = <<>>
    /\ annotations = <<>>
    /\ config = SchematicConfig
    /\ layout_engine = NotCalled
    /\ positions = NoPositions
    /\ last = NotCalled
    /\ memo = [calls |-> 0]

\* What a call of the library leaves: nothing but its return value
LibraryCalled(op, arg, returned) ==
    /\ memo.calls < MaxCalls
    /\ memo' = [calls |-> memo.calls + 1]
    /\ last' = [op |-> op, arg |-> arg, returned |-> returned]
    /\ UNCHANGED <<themeVars, layoutVars, renderVars>>
    /\ UNCHANGED <<components, connections, annotations, config, layout_engine, positions>>

LibNode ==
    \E name \in PrebuiltNames, status \in ComponentStatuses :
        LibraryCalled(name, [status |-> status], PrebuiltNode(name, status))

LibGpu ==
    \E index \in {0, 1}, status \in ComponentStatuses :
        LibraryCalled("slate_gpu", [index |-> index, status |-> status],
                      slate_gpu(index, status))

LibModel ==
    \E name \in {"coder", "fast", "planner"}, size \in {"12B", "3B"}, gpu_index \in {0, 1} :
        LibraryCalled("slate_model", [name |-> name, size |-> size, gpu_index |-> gpu_index],
                      slate_model(name, size, gpu_index))

LibListTemplates == LibraryCalled("list_templates", NoArg, list_templates)

LibBuildFromTemplate ==
    /\ memo.calls < MaxCalls
    /\ \E template_id \in TemplateIds :
          \E built \in {build_from_template(template_id)} :
              LibraryCalled("build_from_template", [template_id |-> template_id], built)

LibraryNext == LibNode \/ LibGpu \/ LibModel \/ LibListTemplates \/ LibBuildFromTemplate

SpecLibrary == LibraryInit /\ [][LibraryNext]_vars

\* build_from_template has been called
BuiltFromTemplate == last # NotCalled /\ last.op = "build_from_template"

\* The document shows every component and every connection of the template, in order
ShowsTemplate(svg, template) ==
    /\ svg.ok
    /\ [i \in DOMAIN ComponentItems(svg) |-> ComponentItems(svg)[i].data_id]
          = [i \in DOMAIN template.components |-> template.components[i].id]
    /\ [i \in DOMAIN ComponentItems(svg) |-> ComponentItems(svg)[i].texts[1]]
          = [i \in DOMAIN template.components |-> template.components[i].label]
    /\ [i \in DOMAIN Section(svg, "connections").items |->
          <<Section(svg, "connections").items[i].data_from,
            Section(svg, "connections").items[i].data_to>>]
          = [i \in DOMAIN template.connections |->
                <<template.connections[i].from_node, template.connections[i].to_node>>]

\* C20: build_from_template fails for an id that is not registered, with the error
\* naming system, inference and cicd, without an engine or a document; for a
\* registered id it returns the document of all components and connections of the
\* template
BuildFromTemplateChecksId ==
    BuiltFromTemplate =>
        IF last.arg.template_id \in {"system", "inference", "cicd"}
        THEN /\ last.returned.ok
             /\ ShowsTemplate(last.returned.svg,
                              CASE last.arg.template_id = "system" -> get_slate_system_template
                                [] last.arg.template_id = "inference" -> get_ai_inference_template
                                [] last.arg.template_id = "cicd" -> get_cicd_pipeline_template)
        ELSE /\ ~last.returned.ok
             /\ last.returned.error = "KeyError"
             /\ last.returned.message.text = "Unknown template"
             /\ last.returned.message.name = last.arg.template_id
             /\ last.returned.message.available = <<"system", "inference", "cicd">>
             /\ DOMAIN last.returned = {"ok", "error", "message"}

\* build_from_template("nonexistent") has failed
BuiltFromUnknownTemplate ==
    /\ BuiltFromTemplate
    /\ last.arg.template_id = "nonexistent"
    /\ ~last.returned.ok

-----------------------------------------------------------------------------
(* The command-line tool (cli.py).  A JSON object is a function from its   *)
(* keys, a line of output is the sequence of the pieces its f-string puts  *)
(* together, a stream is the sequence of its lines.  The world of a run is *)
(* what the run finds outside itself: the input file, whether PyYAML can   *)
(* be imported, whether the output can be written, and what the engine     *)
(* (engine.py) answers.                                                    *)

\* What dict.get returns for a key the dict does not have
NoValue == "<None>"

\* str(i) of a small number
str(i) ==
    CASE i = 0 -> "0" [] i = 1 -> "1" [] i = 2 -> "2" [] i = 3 -> "3"
      [] OTHER -> "many"

\* Path(p).suffix
suffix(p) == IF p \in {"d.yaml", "d.yml"} THEN ".yaml" ELSE ".json"

NoOutput == [stdout |-> <<>>, stderr |-> <<>>]

\* print(...): one more line on standard output
print(out, line) == [out EXCEPT !.stdout = Append(@, line)]

\* print(..., file=sys.stderr)
print_stderr(out, line) == [out EXCEPT !.stderr = Append(@, line)]

\* A command that has returned: its return value and what it has printed
Returned(code, out) ==
    [returned |-> TRUE, exit |-> code, stdout |-> out.stdout, stderr |-> out.stderr]

\* A command left by an exception: what it had printed, and str(e)
Raised(out, message) ==
    [returned |-> FALSE, message |-> message, stdout |-> out.stdout, stderr |-> out.stderr]

\* data.get("components", data.get("nodes", []))
ComponentsOf(data) ==
    IF "components" \in DOMAIN data THEN data.components
    ELSE IF "nodes" \in DOMAIN data THEN data.nodes
    ELSE <<>>

\* the errors of component i (cli.py 255-258)
ComponentErrors(comp, i) ==
    (IF "id" \notin DOMAIN comp
     THEN << <<"Component ", str(i), ": missing 'id' field">> >> ELSE <<>>)
    \o (IF "label" \notin DOMAIN comp
        THEN << <<"Component ", str(i), ": missing 'label' field">> >> ELSE <<>>)

\* the errors of connection i (cli.py 263-266)
ConnectionErrors(conn, i, node_ids) ==
    (IF DictGet(conn, "from_node", NoValue) \notin node_ids
        /\ DictGet(conn, "from", NoValue) \notin node_ids
     THEN << <<"Connection ", str(i), ": invalid 'from' node">> >> ELSE <<>>)
    \o (IF DictGet(conn, "to_node", NoValue) \notin node_ids
           /\ DictGet(conn, "to", NoValue) \notin node_ids
        THEN << <<"Connection ", str(i), ": invalid 'to' node">> >> ELSE <<>>)

\* errors, as cmd_validate has collected them (cli.py 247-266)
ValidationErrors(data) ==
    LET comps == ComponentsOf(data)
        conns == DictGet(data, "connections", <<>>)
        node_ids == {DictGet(comps[i], "id", NoValue) : i \in DOMAIN comps}
    IN (IF "components" \notin DOMAIN data /\ "nodes" \notin DOMAIN data
        THEN << <<"Missing 'components' or 'nodes' field">> >> ELSE <<>>)
       \o Concat([i \in DOMAIN comps |-> ComponentErrors(comps[i], i - 1)])
       \o Concat([i \in DOMAIN conns |-> ConnectionErrors(conns[i], i - 1, node_ids)])

\* cmd_validate (cli.py 226-277)
cmd_validate(args, world) ==
    IF ~world.exists
    THEN Returned(1, print_stderr(NoOutput, <<"Error: File not found: ", args.input>>))
    ELSE LET started == print(NoOutput, <<"Validating: ", args.input>>) IN
         IF suffix(args.input) = ".yaml" /\ ~world.yaml_installed
         THEN Returned(1, print_stderr(started, <<"Parse error: ", "No module named 'yaml'">>))
         ELSE IF world.content.kind = "malformed"
         THEN Returned(1, print_stderr(started, <<"Parse error: ", "Expecting value">>))
         ELSE IF world.content.kind = "array"
         THEN Raised(started, <<"'list' object has no attribute 'get'">>)
         ELSE LET errors == ValidationErrors(world.content.data) IN
              IF errors # <<>>
              THEN Returned(1,
                     [started EXCEPT !.stdout =
                         @ \o << <<"", "Validation FAILED:">> >>
                           \o [k \in DOMAIN errors |-> <<"  - ">> \o errors[k]]])
              ELSE Returned(0,
                     [started EXCEPT !.stdout =
                         @ \o << <<"", "Validation PASSED">>,
                                 <<"  Components: ",
                                   str(Len(ComponentsOf(world.content.data)))>>,
                                 <<"  Connections: ",
                                   str(Len(DictGet(world.content.data, "connections", <<>>)))>> >>])

\* output_path.parent.mkdir(...); output_path.write_text(...); print("Saved to: ...")
SaveTo(out, path, world) ==
    IF world.writable
    THEN Returned(0, print(out, <<"Saved to: ", path>>))
    ELSE Raised(out, <<"[Errno 13] Permission denied: ", path>>)

\* cmd_generate (cli.py 137-176)
cmd_generate(args, world) ==
    IF ~world.exists
    THEN Returned(1, print_stderr(NoOutput, <<"Error: Input file not found: ", args.input>>))
    ELSE LET started == print(NoOutput, <<"Generating diagram from: ", args.input>>) IN
         IF suffix(args.input) = ".yaml" /\ ~world.yaml_installed
         THEN Returned(1, print_stderr(started,
                  <<"Error: PyYAML not installed. Use JSON format or install pyyaml.">>))
         ELSE IF world.content.kind = "malformed"
         THEN Raised(started, <<"Expecting value">>)
         ELSE IF world.content.kind = "array"
         THEN Raised(started, <<"list indices must be integers or slices, not str">>)
         ELSE IF ~world.built.ok
         THEN Raised(started, world.built.message)
         ELSE SaveTo(started, args.output, world)

\* cmd_from_system (cli.py 98-118)
cmd_from_system(args, world) ==
    LET started == print(NoOutput, <<"Generating system diagram...">>) IN
    IF ~world.built.ok
    THEN Raised(started, world.built.message)
    ELSE SaveTo(started, args.output, world)

\* cmd_from_tech_tree (cli.py 121-134)
cmd_from_tech_tree(args, world) ==
    LET started == print(NoOutput, <<"Generating tech tree diagram from: ", args.input>>) IN
    IF ~world.built.ok
    THEN Raised(started, world.built.message)
    ELSE SaveTo(started, args.output, world)

\* The table of cmd_components: the names of each category, in order (cli.py 181-210)
ComponentTable ==
    << <<"nodes", <<"ServiceNode", "DatabaseNode", "GPUNode", "AINode", "APINode",
                    "QueueNode", "ExternalNode">> >>,
       <<"connections", <<"FlowConnector", "DashedConnector", "DataBus">> >>,
       <<"terminals", <<"InputTerminal", "OutputTerminal">> >>,
       <<"layouts", <<"hierarchical", "force", "grid">> >>,
       <<"themes", <<"blueprint", "dark", "light">> >> >>

\* cmd_components (cli.py 179-223)
cmd_components(args, world) ==
    IF args.json
    THEN Returned(0, print(NoOutput, <<"json.dumps(components, indent=2)">>))
    ELSE Returned(0,
           [NoOutput EXCEPT !.stdout =
               << <<"", "SLATE Schematic SDK - Available Components", "">>,
                  <<"==================================================">> >>
               \o Concat([c \in DOMAIN ComponentTable |->
                     << <<"", ComponentTable[c][1], ":">> >>
                     \o [n \in DOMAIN ComponentTable[c][2] |->
                           <<"  ", ComponentTable[c][2][n], " - ">>]])])

\* The command main dispatches to, run to its end
Dispatch(args, world) ==
    CASE args.command = "from-system" -> cmd_from_system(args, world)
      [] args.command = "from-tech-tree" -> cmd_from_tech_tree(args, world)
      [] args.command = "generate" -> cmd_generate(args, world)
      [] args.command = "components" -> cmd_components(args, world)
      [] args.command = "validate" -> cmd_validate(args, world)

\* main (cli.py 76-95), and sys.exit(main()): the exit code and the two streams
main(args, world) ==
    IF args.command = NoValue
    THEN [exit |-> 0, stdout |-> << <<"usage: ">> >>, stderr |-> <<>>]
    ELSE LET done == Dispatch(args, world) IN
         IF done.returned
         THEN [exit |-> done.exit, stdout |-> done.stdout, stderr |-> done.stderr]
         ELSE [exit |-> 1, stdout |-> done.stdout,
               stderr |-> Append(done.stderr, <<"Error: ">> \o done.message)]

-----------------------------------------------------------------------------
(* Specification of the command-line tool: one run of main per behaviour.  *)

\* The component and connection objects of the definition files of the model: a
\* component without 'id', one without 'label'; connections written with either
\* pair of keys, with an end that names no component, and without a 'from' end
ComponentDicts ==
    { [id |-> "a", label |-> "A"], [id |-> "b", label |-> "B"],
      [label |-> "C"], [id |-> "c"] }

ConnectionDicts ==
    { [from_node |-> "a", to_node |-> "b"], [from |-> "a", to |-> "b"],
      [from_node |-> "a", to_node |-> "x"], [from_node |-> "y", to_node |-> "x"],
      [to |-> "a"] }

\* The JSON objects of the definition files: with 'components' or 'nodes', with
\* and without 'connections'
Documents ==
    {[components |-> cs, connections |-> ns] :
        cs \in SeqsUpTo(ComponentDicts, MaxNodes), ns \in SeqsUpTo(ConnectionDicts, MaxConns)}
    \cup {[nodes |-> cs, connections |-> ns] :
        cs \in SeqsUpTo(ComponentDicts, 1), ns \in SeqsUpTo(ConnectionDicts, 1)}
    \cup {[components |-> cs] : cs \in SeqsUpTo(ComponentDicts, 1)}
    \cup {[connections |-> ns] : ns \in SeqsUpTo(ConnectionDicts, 1)}

\* What json.loads / yaml.safe_load make of the input file
Contents ==
    {[kind |-> "malformed"], [kind |-> "array"]}
    \cup {[kind |-> "object", data |-> d] : d \in Documents}

\* What SchematicEngine.from_dict(...).render_svg(), generate_from_system_state()
\* and generate_from_tech_tree(...) may answer
BuiltOutcomes == {[ok |-> TRUE], Raise("ValueError", <<"invalid definition">>)}

InputPaths == {"d.json", "d.yaml"}

CliInit ==
    /\ ThemeIdle /\ LayoutIdle /\ RenderIdle
    /\ components = <<>>
    /\ connections = <<>>
    /\ annotations = <<>>
    /\ config = SchematicConfig
    /\ layout_engine = NotCalled
    /\ positions = NoPositions
    /\ last = NotCalled
    /\ memo = [runs |-> 0]

\* python -m slate.schematic_sdk.cli ...: the process runs main once and exits
CliRun(args, world) ==
    /\ memo.runs = 0
    /\ memo' = [runs |-> 1]
    /\ last' = [op |-> "main", arg |-> [args |-> args, world |-> world],
                returned |-> main(args, world)]
    /\ UNCHANGED <<themeVars, layoutVars, renderVars>>
    /\ UNCHANGED <<components, connections, annotations, config, layout_engine, positions>>

CliNoCommand ==
    CliRun([command |-> NoValue],
           [exists |-> FALSE, yaml_installed |-> FALSE, writable |-> FALSE])

CliValidate ==
    \E input \in InputPaths, exists \in BOOLEAN, content \in Contents,
       yaml_installed \in BOOLEAN :
        /\ ~exists => content.kind = "malformed" /\ yaml_installed
        /\ CliRun([command |-> "validate", input |-> input],
                  [exists |-> exists, content |-> content,
                   yaml_installed |-> yaml_installed])

CliGenerate ==
    \E input \in InputPaths, exists \in BOOLEAN,
       content \in {c \in Contents : c.kind = "object" => c.data = [components |-> <<>>]},
       yaml_installed \in BOOLEAN, writable \in BOOLEAN, built \in BuiltOutcomes :
        /\ ~exists => content.kind = "malformed" /\ yaml_installed
        /\ CliRun([command |-> "generate", input |-> input, output |-> "out.svg"],
                  [exists |-> exists, content |-> content,
                   yaml_installed |-> yaml_installed, writable |-> writable,
                   built |-> built])

CliComponents ==
    \E json \in BOOLEAN :
        CliRun([command |-> "components", json |-> json],
               [exists |-> FALSE, yaml_installed |-> FALSE, writable |-> FALSE])

CliFromSystem ==
    \E writable \in BOOLEAN, built \in BuiltOutcomes :
        CliRun([command |-> "from-system", output |-> "out.svg"],
               [writable |-> writable, built |-> built])

CliFromTechTree ==
    \E writable \in BOOLEAN, built \in BuiltOutcomes :
        CliRun([command |-> "from-tech-tree", input |-> "tree.json", output |-> "out.svg"],
               [writable |-> writable, built |-> built])

CliNext ==
    \/ CliNoCommand \/ CliValidate \/ CliGenerate
    \/ CliComponents \/ CliFromSystem \/ CliFromTechTree

SpecCli == CliInit /\ [][CliNext]_vars

-----------------------------------------------------------------------------
(* Properties of the command-line tool *)

\* validate has run on a file that holds a JSON object
ValidatedObject ==
    /\ last # NotCalled /\ last.op = "main"
    /\ last.arg.args.command = "validate"
    /\ last.arg.world.exists
    /\ last.arg.world.content.kind = "object"
    /\ suffix(last.arg.args.input) = ".yaml" => last.arg.world.yaml_installed

\* The ids the components of a document declare
DeclaredIds(data) ==
    {ComponentsOf(data)[k].id :
        k \in {j \in DOMAIN ComponentsOf(data) : "id" \in DOMAIN ComponentsOf(data)[j]}}

ConnectionsOf(data) == DictGet(data, "connections", <<>>)

\* Every line the run has written, on either stream
LinesWritten == Range(last.returned.stdout) \cup Range(last.returned.stderr)

\* The document with every connection end that names no declared id set to id
Repaired(data, id) ==
    [data EXCEPT !.connections =
        [i \in DOMAIN @ |-> [k \in DOMAIN @[i] |->
            IF @[i][k] \in DeclaredIds(data) THEN @[i][k] ELSE id]]]

\* A document whose components are all complete and whose connections have both ends
WellFormedButForIds(data) ==
    /\ "components" \in DOMAIN data /\ "connections" \in DOMAIN data
    /\ \A k \in DOMAIN data.components : DOMAIN data.components[k] = {"id", "label"}
    /\ \A i \in DOMAIN data.connections :
          DOMAIN data.connections[i] \in {{"from_node", "to_node"}, {"from", "to"}}

\* C21: a document with a connection that names an id its components array does not
\* hold fails validation with a non-zero exit and an error that names the index of
\* the connection and the missing id; with the id corrected to a declared one the
\* document passes with exit 0
ValidateNamesBadReference ==
    ValidatedObject /\ WellFormedButForIds(last.arg.world.content.data) =>
        LET data == last.arg.world.content.data IN
        /\ \A i \in DOMAIN data.connections : \A k \in DOMAIN data.connections[i] :
              data.connections[i][k] \notin DeclaredIds(data) =>
                 /\ last.returned.exit # 0
                 /\ \E line \in LinesWritten :
                       /\ str(i - 1) \in Range(line)
                       /\ data.connections[i][k] \in Range(line)
        /\ \A id \in DeclaredIds(data) :
              main(last.arg.args,
                   [last.arg.world EXCEPT !.content.data = Repaired(data, id)]).exit = 0

\* validate has rejected the document of components a, b and the connection a -> x
ValidateRejectedDangling ==
    /\ ValidatedObject
    /\ last.arg.world.content.data =
          [components |-> <<[id |-> "a", label |-> "A"], [id |-> "b", label |-> "B"]>>,
           connections |-> <<[from_node |-> "a", to_node |-> "x"]>>]
    /\ last.returned.exit = 1
    /\ <<"  - ", "Connection ", "0", ": invalid 'to' node">> \in Range(last.returned.stdout)

\* The end of a connection names a declared id, by either of its two keys
Resolves(conn, end, declared) ==
    \E k \in {end, IF end = "from" THEN "from_node" ELSE "to_node"} \cap DOMAIN conn :
        conn[k] \in declared

\* C22: validation reports every connection end that does not resolve to a declared
\* component id with an entry of its own, whatever other errors the document has,
\* and rejects the document
ValidateEnumeratesBadReferences ==
    ValidatedObject =>
        LET data == last.arg.world.content.data IN
        \A i \in DOMAIN ConnectionsOf(data) : \A end \in {"from", "to"} :
            ~Resolves(ConnectionsOf(data)[i], end, DeclaredIds(data)) =>
               /\ last.returned.exit = 1
               /\ \E line \in LinesWritten :
                     /\ str(i - 1) \in Range(line)
                     /\ (IF end = "from" THEN ": invalid 'from' node"
                         ELSE ": invalid 'to' node") \in Range(line)

\* validate has run on a component without 'id' and a connection y -> x, and has
\* reported the component alone
ValidateMaskedReferences ==
    /\ ValidatedObject
    /\ last.arg.world.content.data =
          [components |-> <<[label |-> "C"]>>,
           connections |-> <<[from_node |-> "y", to_node |-> "x"]>>]
    /\ last.returned.exit = 1
    /\ last.returned.stdout[3] = <<"  - ", "Component ", "0", ": missing 'id' field">>
    /\ Len(last.returned.stdout) = 3

\* A line that tells the user of an error
ErrorText(line) ==
    \/ line[1] \in {"Error: ", "Parse error: ", "  - "}
    \/ line = <<"", "Validation FAILED:">>
    \/ line = <<"Error: PyYAML not installed. Use JSON format or install pyyaml.">>

CliRan == last # NotCalled /\ last.op = "main"

\* C23: a run of any command exits with 0 or 1; a run that exits with 1 has written
\* its error text to the error stream, and no run writes error text to standard
\* output or, when it exits with 0, to the error stream
CliErrorsOnErrorStream ==
    CliRan =>
        /\ last.returned.exit \in {0, 1}
        /\ last.returned.exit = 1 => \E line \in Range(last.returned.stderr) : ErrorText(line)
        /\ last.returned.exit = 0 => last.returned.stderr = <<>>
        /\ \A line \in Range(last.returned.stdout) : ~ErrorText(line)

\* validate has failed with nothing on the error stream
ValidateFailedOnStdout ==
    /\ ValidatedObject
    /\ last.returned.exit = 1
    /\ last.returned.stderr = <<>>
    /\ <<"", "Validation FAILED:">> \in Range(last.returned.stdout)

-----------------------------------------------------------------------------
(* The exporters (exporters.py): MarkdownExporter.to_inline.  A string is  *)
(* the sequence of its characters.                                         *)

MaxPieces == 4         \* pieces an input string of the model is put together from

\* content.startswith(prefix)
str_startswith(content, prefix) ==
    Len(content) >= Len(prefix) /\ SubSeq(content, 1, Len(prefix)) = prefix

\* The places (counted from 0) where sub occurs in content
Occurrences(content, sub) ==
    {i \in 0..(Len(content) - Len(sub)) : SubSeq(content, i + 1, i + Len(sub)) = sub}

\* content.index(sub): the first place sub occurs, or ValueError
str_index(content, sub) ==
    IF Occurrences(content, sub) = {}
    THEN Raise("ValueError", [text |-> "substring not found"])
    ELSE Return(CHOOSE i \in Occurrences(content, sub) :
                    \A j \in Occurrences(content, sub) : i <= j)

\* The characters str.strip() removes
Whitespace == {" ", "\n", "\t", "\r"}

\* content.strip(): without its leading and trailing whitespace
str_strip(content) ==
    LET inked == {i \in DOMAIN content : content[i] \notin Whitespace} IN
    IF inked = {} THEN <<>>
    ELSE SubSeq(content, CHOOSE i \in inked : \A j \in inked : i <= j,
                         CHOOSE i \in inked : \A j \in inked : j <= i)

\* to_inline looking for the end of the declaration with str.find, which answers -1
\* when there is none
to_inline_finding(svg_content) ==
    IF str_startswith(svg_content, <<"<", "?", "x", "m", "l">>)
    THEN LET found == str_index(svg_content, <<"?", ">">>)
             at == IF found.ok THEN found.value ELSE -1
         IN Return(str_strip(SubSeq(svg_content, at + 3, Len(svg_content))))
    ELSE Return(svg_content)

\* MarkdownExporter.to_inline (exporters.py 148-163)
to_inline(svg_content) ==
    IF str_startswith(svg_content, <<"<", "?", "x", "m", "l">>)
    THEN LET found == str_index(svg_content, <<"?", ">">>) IN
         IF found.ok
         THEN Return(str_strip(SubSeq(svg_content, found.value + 3, Len(svg_content))))
         ELSE found
    ELSE Return(svg_content)

\* The pieces the input strings of the model are put together from
Pieces == { <<"<", "?", "x", "m", "l">>, <<"?", ">">>, <<" ">>, <<"a">>, <<"\n">> }

ExportInputs == {Concat(ps) : ps \in SeqsUpTo(Pieces, MaxPieces)}

ExportInit ==
    /\ ThemeIdle /\ LayoutIdle /\ RenderIdle
    /\ components = <<>>
    /\ connections = <<>>
    /\ annotations = <<>>
    /\ config = SchematicConfig
    /\ layout_engine = NotCalled
    /\ positions = NoPositions
    /\ last = NotCalled
    /\ memo = [calls |-> 0]

\* MarkdownExporter.to_inline(svg_content): a static method, it leaves its value
ExportToInline ==
    \E svg_content \in ExportInputs :
        /\ memo.calls = 0
        /\ last' = [op |-> "to_inline", arg |-> svg_content,
                    returned |-> to_inline(svg_content)]
        /\ memo' = [calls |-> 1]
        /\ UNCHANGED <<themeVars, layoutVars, renderVars>>
        /\ UNCHANGED <<components, connections, annotations, config, layout_engine,
                       positions>>

ExportNext == ExportToInline

SpecExport == ExportInit /\ [][ExportNext]_vars

\* to_inline has been called
InlineCalled == last # NotCalled /\ last.op = "to_inline"

XmlPrefix == <<"<", "?", "x", "m", "l">>

\* s holds the two characters ?> somewhere
HoldsDeclarationEnd(s) == \E i \in 1..(Len(s) - 1) : s[i] = "?" /\ s[i + 1] = ">"

\* C24 as stated: to_inline never fails; it returns an input that does not start
\* with an XML declaration unchanged, and an input that starts with one without it
InlineNeverFails ==
    InlineCalled =>
        /\ last.returned.ok
        /\ ~str_startswith(last.arg, XmlPrefix) => last.returned.value = last.arg
        /\ str_startswith(last.arg, XmlPrefix) =>
              ~str_startswith(last.returned.value, XmlPrefix)
                 \/ Len(last.returned.value) < Len(last.arg)

\* C24 (amended): to_inline returns an input that does not start with <?xml
\* unchanged; for an input that starts with <?xml and holds ?> it returns what
\* follows the first ?> without the whitespace around it; for an input that starts
\* with <?xml and holds no ?> it fails with ValueError
InlineStripsDeclaration ==
    InlineCalled =>
        IF ~str_startswith(last.arg, XmlPrefix)
        THEN last.returned.ok /\ last.returned.value = last.arg
        ELSE IF ~HoldsDeclarationEnd(last.arg)
        THEN ~last.returned.ok /\ last.returned.error = "ValueError"
        ELSE /\ last.returned.ok
             /\ \E n \in 7..Len(last.arg) :
                   \* the declaration: the first n characters, ending with the first ?>
                   /\ last.arg[n - 1] = "?" /\ last.arg[n] = ">"
                   /\ ~HoldsDeclarationEnd(SubSeq(last.arg, 1, n - 1))
                   /\ \E before \in 0..(Len(last.arg) - n) :
                         LET value == last.returned.value
                             rest == SubSeq(last.arg, n + 1, Len(last.arg))
                         IN /\ before + Len(value) <= Len(rest)
                            /\ value = SubSeq(rest, before + 1, before + Len(value))
                            /\ \A i \in DOMAIN rest :
                                  (i <= before \/ i > before + Len(value))
                                      => rest[i] \in Whitespace
                            /\ value # <<>> =>
                                  /\ value[1] \notin Whitespace
                                  /\ value[Len(value)] \notin Whitespace

\* to_inline has taken the declaration and the line break after it off a document
InlineStripped ==
    /\ InlineCalled
    /\ last.arg = <<"<", "?", "x", "m", "l", "?", ">", "\n", "a">>
    /\ last.returned = Return(<<"a">>)

-----------------------------------------------------------------------------
(* Properties of the layout engines: inputs, keys, canvas, layer ranks *)

\* calculate_positions has returned a result
LayoutDone == lay_engine.ok /\ lay_result # NotCalled /\ lay_result.ok

\* C25: after calculate_positions of any of the three engines every component, with
\* its position, size and layer, and every connection is as it was given; the
\* computed coordinates are in the returned position map only
LayoutLeavesInputs ==
    lay_result # NotCalled =>
        /\ lay_components = lay_given.components
        /\ lay_connections = lay_given.connections

\* The force simulation has moved the point of a component with an explicit position
\* away from that position, in its result
ForceMovedExplicit ==
    /\ LayoutDone
    /\ lay_engine.engine.kind = "force" /\ lay_engine.engine.iterations > 0
    /\ \E i \in DOMAIN lay_components :
          /\ lay_components[i].position = <<450, 300>>
          /\ lay_given.components[i].position = <<450, 300>>
          /\ lay_result.positions[lay_components[i].id]
                # <<FInt(450), FInt(300)>>

-----------------------------------------------------------------------------
(* Properties of the rendered connections *)

\* Half the width of the component a connection end names (the last one of that id),
\* or nothing when there is no such component or it has no size
HalfWidthAt(id) ==
    IF id \in Ids(r_components) /\ CompLookup(r_components)[id].size # None
    THEN Frac(CompLookup(r_components)[id].size[1], 2)
    ELSE FInt(0)

\* The element the connections layer holds for the placed connection i
ConnectionItem(i) ==
    Section(r_svg, "connections").items[RankIn(PlacedConnections, i)]

\* The same connection rendered between the same two points with the target moved
\* down to twice the vertical distance
TwiceAsHigh(i) ==
    LET path == ConnectionItem(i).path
    IN _render_connection(theme, r_connections[i], path[1][1], path[1][2], path[4][1],
                          FAdd(path[1][2], FMul(FInt(2), FSub(path[4][2], path[1][2])))).path

\* C26: the path of a rendered connection runs from the source position shifted right
\* by half the source's width to the target position shifted left by half the
\* target's width, and the horizontal offset of its two control points from the
\* endpoints is proportional to the vertical distance between the endpoints: with
\* that distance doubled and nothing else changed, the offset doubles
ConnectionCurveFollowsHeight ==
    (r_svg # NotCalled /\ r_svg.ok) =>
        \A i \in PlacedConnections :
            LET path == ConnectionItem(i).path
                from_pos == r_positions[r_connections[i].from_node]
                to_pos == r_positions[r_connections[i].to_node]
            IN /\ path[1] = <<FAdd(from_pos[1], HalfWidthAt(r_connections[i].from_node)),
                              from_pos[2]>>
               /\ path[4] = <<FSub(to_pos[1], HalfWidthAt(r_connections[i].to_node)),
                              to_pos[2]>>
               /\ path[2][2] = path[1][2] /\ path[3][2] = path[4][2]
               /\ FSub(TwiceAsHigh(i)[2][1], path[1][1])
                     = FMul(FInt(2), FSub(path[2][1], path[1][1]))
               /\ FSub(path[4][1], TwiceAsHigh(i)[3][1])
                     = FMul(FInt(2), FSub(path[4][1], path[3][1]))

\* The connection a -> b is rendered with both control points half way between the
\* endpoints, which are 200 apart in height
ConnectionCurveAtMiddle ==
    /\ r_svg # NotCalled /\ r_svg.ok
    /\ \E i \in PlacedConnections :
          LET path == ConnectionItem(i).path
          IN /\ r_connections[i].from_node = "a" /\ r_connections[i].to_node = "b"
             /\ FSub(path[4][2], path[1][2]) = FInt(200)
             /\ path[1][1] # path[4][1]
             /\ path[2][1] = FDiv(FAdd(path[1][1], path[4][1]), FInt(2))
             /\ path[3][1] = path[2][1]

-----------------------------------------------------------------------------
(* The keys of the position map *)

\* C27: for components with pairwise distinct ids, the position map that
\* calculate_positions of the hierarchical, the force and the grid engine returns has
\* the ids of the components as its keys and no other key; an id that only a
\* connection names is no key
LayoutPlacesComponentIds ==
    (LayoutDone /\ DistinctIds(lay_given.components)) =>
        /\ lay_engine.engine.kind \in {"hierarchical", "force", "grid"}
        /\ DOMAIN lay_result.positions = Ids(lay_given.components)
        /\ \A e \in DOMAIN lay_given.connections :
              \A end \in {lay_given.connections[e].from_node,
                          lay_given.connections[e].to_node} :
                 end \in DOMAIN lay_result.positions <=> end \in Ids(lay_given.components)

\* A layout of two components with the connection from a to the unknown id x has returned
\* two positions
LayoutPlacedAllButDangling ==
    /\ LayoutDone /\ DistinctIds(lay_given.components)
    /\ Len(lay_given.components) = 2
    /\ Cardinality(DOMAIN lay_result.positions) = 2
    /\ \E e \in DOMAIN lay_given.connections : lay_given.connections[e].to_node = "x"

-----------------------------------------------------------------------------
(* Hierarchical layout, centred: the padded canvas and the bounds *)

\* The position calculate_positions returned for the i-th component
PositionOf(i) == lay_result.positions[lay_components[i].id]

\* padding < x < width - padding and padding < y < height - padding
InsidePadding(pos) ==
    /\ FLess(FInt(lay_config.padding), pos[1])
    /\ FLess(pos[1], FInt(lay_config.width - lay_config.padding))
    /\ FLess(FInt(lay_config.padding), pos[2])
    /\ FLess(pos[2], FInt(lay_config.height - lay_config.padding))

\* bounds = (minX, minY, maxX, maxY) with minX <= x <= maxX and minY <= y <= maxY
Encloses(bounds, pos) ==
    /\ FLeq(bounds[1], pos[1]) /\ FLeq(pos[1], bounds[3])
    /\ FLeq(bounds[2], pos[2]) /\ FLeq(pos[2], bounds[4])

\* C28: with center alignment, on a canvas with width > 2 * padding and
\* height > 2 * padding, every position the hierarchical layout assigns lies strictly
\* inside the padded canvas, for TB, BT, LR and RL, and the returned bounds enclose
\* every assigned position
HierarchicalInsidePadding ==
    (/\ HierarchicalDone
     /\ lay_engine.engine.align = "center"
     /\ lay_config.width > 2 * lay_config.padding
     /\ lay_config.height > 2 * lay_config.padding) =>
        \A i \in DOMAIN lay_components :
            /\ InsidePadding(PositionOf(i))
            /\ Encloses(lay_result.bounds, PositionOf(i))

\* A centred layout from right to left has put two components into two layers
HierarchicalCentredRightToLeft ==
    /\ HierarchicalDone
    /\ lay_engine.engine.align = "center" /\ lay_engine.engine.direction = "RL"
    /\ lay_config.width > 2 * lay_config.padding
    /\ lay_config.height > 2 * lay_config.padding
    /\ \E i, j \in DOMAIN lay_components : FLess(PrimaryOf(i), PrimaryOf(j))

-----------------------------------------------------------------------------
(* Hierarchical layout: layer values count by their rank only *)

\* Strictly increasing maps of the layer values: they keep the order and the grouping
Relayerings ==
    { [from |-> <<0, 1>>, to |-> <<0, 5>>],
      [from |-> <<0, 1>>, to |-> <<-7, -4>>],
      [from |-> <<0, 1>>, to |-> <<3, 4>>] }

\* The components with their layer values replaced
Relayered(comps, f) ==
    [i \in DOMAIN comps |->
        [comps[i] EXCEPT !.layer =
            f.to[CHOOSE k \in DOMAIN f.from : f.from[k] = comps[i].layer]]]

\* The distinct layer values present
LayersPresent == {lay_components[i].layer : i \in DOMAIN lay_components}

\* The component whose assignment positions[comp.id] = (x, y) was the last for its id
PlacedLast(i) ==
    \A j \in DOMAIN lay_components :
        lay_components[j].id = lay_components[i].id =>
            RankIn(LayersPresent, lay_components[j].layer)
                <= RankIn(LayersPresent, lay_components[i].layer)

\* C29: the hierarchical layout depends on the layer values only through their rank
\* among the distinct layer values present: with the values replaced by others in the
\* same order and grouping (0, 5 or -7, -4 for 0, 1) the position map is the same;
\* the distance between consecutive layers is the available extent divided by the
\* number of distinct layers, whatever layer_spacing is configured
HierarchicalByLayerRank ==
    HierarchicalDone =>
        /\ \A f \in Relayerings :
              calculate_positions(lay_engine.engine, Relayered(lay_components, f),
                                  lay_connections, lay_config) = lay_result
        /\ \A spacing \in {1, 40, 120, 500} :
              calculate_positions([lay_engine.engine EXCEPT !.layer_spacing = spacing],
                                  lay_components, lay_connections, lay_config) = lay_result
        /\ \A i, j \in DOMAIN lay_components :
              (/\ PlacedLast(i) /\ PlacedLast(j)
               /\ RankIn(LayersPresent, lay_components[j].layer)
                     = RankIn(LayersPresent, lay_components[i].layer) + 1) =>
                  (IF lay_engine.engine.direction \in {"TB", "LR"}
                   THEN FSub(PrimaryOf(j), PrimaryOf(i))
                   ELSE FSub(PrimaryOf(i), PrimaryOf(j)))
                      = Frac(PrimaryRoom, Cardinality(LayersPresent))

\* Two layers laid out with layer_spacing 40 lie half the available width apart
HierarchicalSpacingUnused ==
    /\ HierarchicalDone /\ DistinctIds(lay_components)
    /\ lay_engine.engine.layer_spacing = 40
    /\ Cardinality(LayersPresent) = 2
    /\ \E i, j \in DOMAIN lay_components :
          /\ FSub(PrimaryOf(i), PrimaryOf(j)) = Frac(PrimaryRoom, 2)
          /\ Frac(PrimaryRoom, 2) # FInt(40)

-----------------------------------------------------------------------------
(* The library templates as diagrams *)

\* Component ids are unique; every from_node and to_node is the id of a component
WellFormedDiagram(template) ==
    /\ DistinctIds(template.components)
    /\ \A e \in DOMAIN template.connections :
          /\ template.connections[e].from_node \in Ids(template.components)
          /\ template.connections[e].to_node \in Ids(template.components)

\* C30: each of the templates system, inference and cicd has pairwise distinct
\* component ids and only connections from a component of the template to a component
\* of the template; the document built from it, after layout, has as many component
\* items and connection items as the template has components and connections
TemplatesAreDiagrams ==
    (BuiltFromTemplate /\ last.returned.ok) =>
        \E template \in {TEMPLATES[last.arg.template_id].factory} :
            /\ WellFormedDiagram(template)
            /\ last.returned.engine.positions.computed
            /\ DOMAIN last.returned.engine.positions.map = Ids(template.components)
            /\ Len(ComponentItems(last.returned.svg)) = Len(template.components)
            /\ Len(Section(last.returned.svg, "connections").items)
                  = Len(template.connections)

\* The cicd template has been built: eight components, seven connections
BuiltCicdTemplate ==
    /\ BuiltFromTemplate /\ last.returned.ok
    /\ last.arg.template_id = "cicd"
    /\ Len(ComponentItems(last.returned.svg)) = 8
    /\ Len(Section(last.returned.svg, "connections").items) = 7

====
